---------------------------- MODULE Spec2Model ----------------------------
(***************************************************************************)
(* State-machine model of the breast-cancer dashboard client:              *)
(*   - the session (AuthProvider + localStorage) and the route guard       *)
(*     (ProtectedRoute, the route table of App, SignIn, SignUp, Layout);   *)
(*   - the Overview page's metrics state and the statistics it derives.    *)
(* JavaScript values are modelled as strings; the two non-string values    *)
(* null and undefined are the reserved strings Null and Undefined.         *)
(***************************************************************************)
EXTENDS Integers, Sequences, FiniteSets, TLC

VARIABLES
    auth,       \* AuthProvider's state {token, role, email}
    storage,    \* localStorage: key -> stored string, or Null when absent
    loc,        \* router location: pathname and state.from
    page,       \* what the route table renders at loc once redirects settle
    inflight,   \* auth requests awaiting the backend's answer
    form,       \* loading / err of the mounted SignIn or SignUp form
    last,       \* history: the last event and the path it asked for
    sinceLogout, \* history: logout happened and no login/signup answer since
    remembered, \* history: the path the guard last handed to /signin
    metrics,    \* Overview: the /metrics answer, entries in key order
    datasetInfo, \* Overview: the /dataset-info answer
    monitoring, \* Overview: the /monitoring/summary answer
    errorMsg,   \* Overview: the load's error message
    ovLoad,     \* Overview: "pending" until the load effect has settled
    report,     \* Metrics: the /evaluation-report answer
    selectedId, \* Metrics: the model id under inspection
    mtLoading,  \* Metrics: the page's loading flag
    mtErr,      \* Metrics: err, the load's error message
    evaluated,  \* backend: the evaluation records the report is built from
    models,     \* Predict: the model registry, entries in key order
    pdMetrics,  \* Predict: metrics, the per-model metrics in key order
    features,   \* Predict: the feature names
    selectedModelId, \* Predict: the selected model id, or Null
    patientData, \* Predict: feature name -> value
    prediction, \* Predict: the last answer of /predict, or None
    pdErrorMsg, \* Predict: errorMsg
    loading,    \* Predict: a predict request is awaited
    featureRanges, \* Predict: feature name -> {mean, std, min, max}
    pdDatasetInfo, \* Predict: datasetInfo
    evalTable,  \* Predict: the evaluation table
    pdLoad,     \* Predict: "pending" until the init effect has settled
    calls,      \* predict requests awaiting the backend's answer
    fetched,    \* history: how each fetch of the last init settled
    pdLast,     \* history: the last Predict operation and its inputs or draws
    inst,       \* views: the number of the page component that is mounted
    running,    \* views: the loads and polls awaiting the backend's answer
    alive,      \* Overview poll effect: the instances whose `alive` is true
    interval,   \* Overview poll effect: the instances whose setInterval is armed
    liveFeed,   \* Overview: liveFeed, the live predictions shown
    issued,     \* history: how many polls have been issued
    appliedPoll, \* history: the number of the poll whose answer liveFeed shows
    late,       \* history: the setters called on a component after its teardown
    lvLast,     \* history: the last step of a view's load or poll
    exSelectedModelId, \* Explainability: selectedModelId
    sampleIndex, \* Explainability: the sample LIME explains
    shapSummary, \* Explainability: the SHAP artifact, or None
    featureImportance, \* Explainability: the importance artifact, or None
    limeExplanation, \* Explainability: the LIME artifact, or None
    exLoading,  \* Explainability: loading
    exError,    \* Explainability: error
    exRuns,     \* Explainability: the runs of loadExplainability at an await
    exStarted   \* history: how many runs of loadExplainability have started

authVars ==
    <<auth, storage, loc, page, inflight, form, last, sinceLogout, remembered>>

overviewVars == <<metrics, datasetInfo, monitoring, errorMsg, ovLoad>>

metricsPageVars == <<report, selectedId, mtLoading, mtErr, evaluated>>

predictVars ==
    <<models, pdMetrics, features, selectedModelId, patientData, prediction,
      pdErrorMsg, loading, featureRanges, pdDatasetInfo, evalTable, pdLoad,
      calls, fetched, pdLast>>

viewsVars ==
    <<inst, running, alive, interval, liveFeed, issued, appliedPoll, late, lvLast>>

explainVars ==
    <<exSelectedModelId, sampleIndex, shapSummary, featureImportance,
      limeExplanation, exLoading, exError, exRuns, exStarted>>

\* the variables of the page components that are modelled each on its own
pageVars == <<viewsVars, explainVars>>

vars == <<authVars, overviewVars, metricsPageVars, predictVars, pageVars>>

-----------------------------------------------------------------------------
(* JavaScript values *)

Null == "<null>"
Undefined == "<undefined>"

\* Boolean(v) for the values that occur: null, undefined and "" are falsy.
Truthy(v) == v \notin {Null, Undefined, ""}

\* String(v): what localStorage.setItem stores for v.
JSString(v) ==
    IF v = Undefined THEN "undefined"
    ELSE IF v = Null THEN "null"
    ELSE v

\* An optional number or record is <<>> when null or undefined, <<v>> otherwise.
None == <<>>

Some(v) == <<v>>

\* x ?? d
Nullish(x, d) == IF x = None THEN d ELSE x[1]

\* arr.includes(x)
Includes(arr, x) == \E i \in DOMAIN arr : arr[i] = x

-----------------------------------------------------------------------------
(* Inputs *)

\* access_token values the backend may answer with (Undefined: field missing).
TokenValues == {"jwt1", "jwt2", Undefined}

\* role values the backend may answer with.
RoleValues == {"scientist", "data_scientist", "admin", Undefined}

\* what the user types in the e-mail field (required, so never empty).
Emails == {"a@lab.com", "b@lab.com"}

\* how many auth requests may be awaiting an answer at once
MaxInFlight == 2

-----------------------------------------------------------------------------
(* Routes *)

ROLE_ACCESS ==
    [scientist |-> <<"/overview", "/predict", "/explainability">>,
     data_scientist |-> <<"/overview", "/predict", "/explainability", "/metrics">>]

\* routes wrapped in <ProtectedRoute>
ProtectedPaths == {"/overview", "/metrics", "/explainability", "/predict"}

\* every path of the route table
Paths == {"/", "/signin", "/signup"} \cup ProtectedPaths

\* rendered when a redirect leads back to the location it came from
Blank == "<blank>"

\* ROLE_ACCESS[role] || []
AllowedRoutes(role) ==
    IF role \in DOMAIN ROLE_ACCESS THEN ROLE_ACCESS[role] ELSE <<>>

\* isAuthed: Boolean(auth.token)
IsAuthed(a) == Truthy(a.token)

Location(pathname, from) == [pathname |-> pathname, from |-> from]

Children(pathname) == [el |-> "children", to |-> pathname, from |-> Null]

NavigateTo(to, from) == [el |-> "Navigate", to |-> to, from |-> from]

\* mutant: the role check is left out
ProtectedRoute_NoRoleCheck(a, pathname) ==
    IF ~IsAuthed(a)
      THEN NavigateTo("/signin", pathname)
      ELSE Children(pathname)

\* mutant: the redirect to /signin carries no state
ProtectedRoute_NoFrom(a, pathname) ==
    IF ~IsAuthed(a)
      THEN NavigateTo("/signin", Null)
      ELSE IF ~Includes(AllowedRoutes(a.role), pathname)
        THEN NavigateTo("/overview", Null)
        ELSE Children(pathname)

\* mutant: a route outside the allow-list is sent to /signin
ProtectedRoute_KickToSignin(a, pathname) ==
    IF ~IsAuthed(a)
      THEN NavigateTo("/signin", pathname)
      ELSE IF ~Includes(AllowedRoutes(a.role), pathname)
        THEN NavigateTo("/signin", Null)
        ELSE Children(pathname)

ProtectedRoute(a, pathname) ==
    IF ~IsAuthed(a)
      THEN NavigateTo("/signin", pathname)
      ELSE IF ~Includes(AllowedRoutes(a.role), pathname)
        THEN NavigateTo("/overview", Null)
        ELSE Children(pathname)

\* the element the route table of App mounts for a pathname
RouteElement(a, pathname) ==
    IF pathname = "/" THEN NavigateTo("/overview", Null)
    ELSE IF pathname \in ProtectedPaths THEN ProtectedRoute(a, pathname)
    ELSE Children(pathname)

\* Render at location l and follow each <Navigate replace> until a page is
\* shown; a Navigate to the location it is rendered at shows nothing.
RECURSIVE Settle(_, _, _)
Settle(a, l, hops) ==
    LET e == RouteElement(a, l.pathname) IN
    IF e.el = "children"
      THEN [loc |-> l, page |-> l.pathname, hops |-> hops]
      ELSE IF Location(e.to, e.from) = l
        THEN [loc |-> l, page |-> Blank, hops |-> hops + 1]
        ELSE Settle(a, Location(e.to, e.from), hops + 1)

-----------------------------------------------------------------------------
(* Session *)

Keys == {"token", "role", "email"}

NoSession == [token |-> Null, role |-> Null, email |-> Null]

\* localStorage.getItem for each key: the stored string, null when absent
readStored(st) ==
    [token |-> st["token"], role |-> st["role"], email |-> st["email"]]

\* AuthProvider.login: setItem stores String(value); state keeps the value
loginStorage(token, role, email) ==
    [k \in Keys |->
        IF k = "token" THEN JSString(token)
        ELSE IF k = "role" THEN JSString(role)
        ELSE JSString(email)]

loginAuth(token, role, email) ==
    [token |-> token, role |-> role, email |-> email]

\* mutant: logout forgets removeItem("token")
logoutStorage_KeepsToken == [storage EXCEPT !["role"] = Null, !["email"] = Null]

\* AuthProvider.logout
logoutStorage == [k \in Keys |-> Null]

logoutAuth == NoSession

NoForm == [loading |-> FALSE, err |-> ""]

\* requests of forms that have been unmounted keep running
Orphaned(reqs) == {[r EXCEPT !.own = FALSE] : r \in reqs}

\* history: a guard redirect to /signin hands over the path it was asked for
Remember(l, otherwise) ==
    IF l.pathname = "/signin" /\ l.from # Null THEN l.from ELSE otherwise

-----------------------------------------------------------------------------
(* Events of the session and the router *)

Event(op, path) == [op |-> op, path |-> path]

\* The app is opened at URL p (address bar): AuthProvider reads the stored
\* session, the router starts at p with no navigation state, and requests of
\* the page that was open before are gone with it.
Visit(p) ==
    LET a == readStored(storage)
        s == Settle(a, Location(p, Null), 0)
    IN /\ auth' = a
       /\ loc' = s.loc
       /\ page' = s.page
       /\ inflight' = {}
       /\ form' = NoForm
       /\ last' = Event("visit", p)
       /\ remembered' = Remember(s.loc, Null)
       /\ UNCHANGED <<storage, sinceLogout>>

\* The browser reloads the current entry: as Visit, but the history entry
\* keeps its navigation state.
Reload ==
    LET a == readStored(storage)
        s == Settle(a, loc, 0)
    IN /\ auth' = a
       /\ loc' = s.loc
       /\ page' = s.page
       /\ inflight' = {}
       /\ form' = NoForm
       /\ last' = Event("reload", loc.pathname)
       /\ remembered' = Remember(s.loc, remembered)
       /\ UNCHANGED <<storage, sinceLogout>>

\* A NavLink of Layout's sidebar: shown for the routes of the role's
\* allow-list, pushes the path with no navigation state.
NavLinkClick(p) ==
    /\ loc.pathname \in ProtectedPaths
    /\ Includes(AllowedRoutes(auth.role), p)
    /\ LET s == Settle(auth, Location(p, Null), 0)
       IN /\ loc' = s.loc
          /\ page' = s.page
          /\ remembered' = Remember(s.loc, remembered)
    /\ form' = NoForm
    /\ inflight' = Orphaned(inflight)
    /\ last' = Event("navlink", p)
    /\ UNCHANGED <<auth, storage, sinceLogout>>

\* SignIn's <Link to="/signup">: no navigation state is passed on.
LinkToSignup ==
    /\ page = "/signin"
    /\ loc' = Location("/signup", Null)
    /\ page' = "/signup"
    /\ form' = NoForm
    /\ inflight' = Orphaned(inflight)
    /\ last' = Event("link", "/signup")
    /\ UNCHANGED <<auth, storage, sinceLogout, remembered>>

\* SignUp's <Link to="/signin">
LinkToSignin ==
    /\ page = "/signup"
    /\ loc' = Location("/signin", Null)
    /\ page' = "/signin"
    /\ form' = NoForm
    /\ inflight' = Orphaned(inflight)
    /\ last' = Event("link", "/signin")
    /\ UNCHANGED <<auth, storage, sinceLogout, remembered>>

\* mutant: the remembered path is ignored
SignInTarget_AlwaysOverview(from) == "/overview"

\* SignIn.onSubmit: const go = loc.state?.from || "/overview"
SignInTarget(from) == IF Truthy(from) THEN from ELSE "/overview"

\* SignUp.onSubmit: nav("/overview", ...)
SignUpTarget(from) == "/overview"

\* a pending onSubmit: the e-mail and the location state its closure holds,
\* and whether the form that issued it is still mounted
Request(kind, email, from) ==
    [kind |-> kind, email |-> email, from |-> from, own |-> TRUE]

\* SignIn.onSubmit up to its await: the button is disabled while loading.
SubmitLogin(email) ==
    /\ page = "/signin"
    /\ ~form.loading
    /\ Cardinality(inflight) < MaxInFlight
    /\ form' = [loading |-> TRUE, err |-> ""]
    /\ inflight' = inflight \cup {Request("login", email, loc.from)}
    /\ last' = Event("submitLogin", Null)
    /\ UNCHANGED <<auth, storage, loc, page, sinceLogout, remembered>>

\* SignUp.onSubmit up to its await
SubmitSignup(email) ==
    /\ page = "/signup"
    /\ ~form.loading
    /\ Cardinality(inflight) < MaxInFlight
    /\ form' = [loading |-> TRUE, err |-> ""]
    /\ inflight' = inflight \cup {Request("signup", email, Null)}
    /\ last' = Event("submitSignup", Null)
    /\ UNCHANGED <<auth, storage, loc, page, sinceLogout, remembered>>

\* onSubmit after a resolved await: login({token, role, email}), then
\* nav(go, {replace: true}); the route table renders with the new session.
AuthOk(r, go, token, role) ==
    /\ r \in inflight
    /\ storage' = loginStorage(token, role, r.email)
    /\ auth' = loginAuth(token, role, r.email)
    /\ LET s == Settle(auth', Location(go, Null), 0)
       IN /\ loc' = s.loc
          /\ page' = s.page
          /\ remembered' = Remember(s.loc, Null)
    /\ form' = NoForm
    /\ inflight' = Orphaned(inflight \ {r})
    /\ sinceLogout' = FALSE

\* onSubmit after a rejected await: setErr on the form if it is still mounted
AuthFail(r, message) ==
    /\ r \in inflight
    /\ form' = IF r.own THEN [loading |-> FALSE, err |-> message] ELSE form
    /\ inflight' = inflight \ {r}
    /\ UNCHANGED <<auth, storage, loc, page, sinceLogout, remembered>>

LoginOk(r, token, role) ==
    /\ r.kind = "login"
    /\ AuthOk(r, SignInTarget(r.from), token, role)
    /\ last' = Event("loginOk", r.from)

LoginFail(r) ==
    /\ r.kind = "login"
    /\ AuthFail(r, "Login failed")
    /\ last' = Event("loginFail", Null)

SignupOk(r, token, role) ==
    /\ r.kind = "signup"
    /\ AuthOk(r, SignUpTarget(r.from), token, role)
    /\ last' = Event("signupOk", remembered)

SignupFail(r) ==
    /\ r.kind = "signup"
    /\ AuthFail(r, "Signup failed")
    /\ last' = Event("signupFail", Null)

\* Layout's "Sign out" button (shown when isAuthed): AuthProvider.logout, and
\* the guard of the current route renders again with the cleared session.
Logout ==
    /\ loc.pathname \in ProtectedPaths
    /\ IsAuthed(auth)
    /\ storage' = logoutStorage
    /\ auth' = logoutAuth
    /\ LET s == Settle(auth', loc, 0)
       IN /\ loc' = s.loc
          /\ page' = s.page
          /\ remembered' = Remember(s.loc, remembered)
    /\ form' = NoForm
    /\ inflight' = Orphaned(inflight)
    /\ sinceLogout' = TRUE
    /\ last' = Event("logout", loc.pathname)

\* A fresh browser (empty localStorage) opens the app at some URL.
AuthInit ==
    \E p \in Paths :
        LET s == Settle(NoSession, Location(p, Null), 0)
        IN /\ storage = [k \in Keys |-> Null]
           /\ auth = readStored(storage)
           /\ loc = s.loc
           /\ page = s.page
           /\ inflight = {}
           /\ form = NoForm
           /\ last = Event("visit", p)
           /\ sinceLogout = FALSE
           /\ remembered = Remember(s.loc, Null)

AuthNext ==
    \/ \E p \in Paths : Visit(p)
    \/ Reload
    \/ \E p \in ProtectedPaths : NavLinkClick(p)
    \/ LinkToSignup
    \/ LinkToSignin
    \/ \E e \in Emails : SubmitLogin(e)
    \/ \E e \in Emails : SubmitSignup(e)
    \/ \E r \in inflight, t \in TokenValues, ro \in RoleValues : LoginOk(r, t, ro)
    \/ \E r \in inflight : LoginFail(r)
    \/ \E r \in inflight, t \in TokenValues, ro \in RoleValues : SignupOk(r, t, ro)
    \/ \E r \in inflight : SignupFail(r)
    \/ Logout

OverviewUnmounted ==
    /\ metrics = <<>>
    /\ datasetInfo = Null
    /\ monitoring = Null
    /\ errorMsg = ""
    /\ ovLoad = "pending"

\* the Metrics page before its load effect has settled
MetricsUnmounted ==
    /\ report = None
    /\ selectedId = ""
    /\ mtLoading = TRUE
    /\ mtErr = Null
    /\ evaluated = <<>>

\* the Predict page before its init effect has settled: the useState values
PredictUnmounted ==
    /\ models = <<>>
    /\ pdMetrics = <<>>
    /\ features = <<>>
    /\ selectedModelId = Null
    /\ patientData = <<>>
    /\ prediction = None
    /\ pdErrorMsg = ""
    /\ loading = FALSE
    /\ featureRanges = <<>>
    /\ pdDatasetInfo = "{}"
    /\ evalTable = "[]"
    /\ pdLoad = "pending"
    /\ calls = {}
    /\ fetched = None
    /\ pdLast = [op |-> "mount", draws |-> <<>>]

\* no page component has started a load or a poll yet
ViewsUnmounted ==
    /\ inst = 0
    /\ running = {}
    /\ alive = {}
    /\ interval = {}
    /\ liveFeed = <<>>
    /\ issued = 0
    /\ appliedPoll = 0
    /\ late = {}
    /\ lvLast = [op |-> "none", n |-> 0]

\* the Explainability page before loadModels has settled: the useState values
ExplainUnmounted ==
    /\ exSelectedModelId = Null
    /\ sampleIndex = 0
    /\ shapSummary = None
    /\ featureImportance = None
    /\ limeExplanation = None
    /\ exLoading = TRUE
    /\ exError = Null
    /\ exRuns = {}
    /\ exStarted = 0

PagesUnmounted ==
    /\ OverviewUnmounted
    /\ MetricsUnmounted
    /\ PredictUnmounted
    /\ ViewsUnmounted
    /\ ExplainUnmounted

Init == AuthInit /\ PagesUnmounted

Next ==
    AuthNext /\ UNCHANGED <<overviewVars, metricsPageVars, predictVars, pageVars>>

Spec == Init /\ [][Next]_vars

-----------------------------------------------------------------------------
(* Access guard: claims C1 - C7 *)

\* the allow-lists as the specification states them
SpecAllowList(role) ==
    IF role = "scientist" THEN {"/overview", "/predict", "/explainability"}
    ELSE IF role = "data_scientist"
      THEN {"/overview", "/predict", "/explainability", "/metrics"}
      ELSE {}

SpecRoles == {"scientist", "data_scientist"}

\* C1: in every reachable state the content of a protected route is rendered
\* only if a session token is present and the route is in the allow-list of
\* the session's current role.
C1_RenderedOnlyIfAllowed ==
    page \in ProtectedPaths =>
        /\ IsAuthed(auth)
        /\ page \in SpecAllowList(auth.role)

\* a data_scientist reached /metrics through the sidebar
C1_Witness ==
    /\ page = "/metrics"
    /\ last = Event("navlink", "/metrics")
    /\ auth.role = "data_scientist"

\* C2: with no session token, a request for a protected route ends at
\* /signin and the requested path is carried as the navigation state 'from'.
C2_AnonymousToSignin ==
    (last.path \in ProtectedPaths /\ last.op # "signupOk" /\ ~IsAuthed(auth)) =>
        /\ loc = Location("/signin", last.path)
        /\ page = "/signin"

\* an anonymous visitor asked for /predict
C2_Witness ==
    /\ last = Event("visit", "/predict")
    /\ ~IsAuthed(auth)
    /\ loc = Location("/signin", "/predict")

\* C3: with a token, a request for a route outside the role's allow-list
\* ends at /overview, and a request for a route inside it passes unchanged.
C3_RoleRedirect ==
    (/\ last.op \in {"visit", "navlink", "reload"}
     /\ last.path \in ProtectedPaths
     /\ IsAuthed(auth)) =>
        IF last.path \in SpecAllowList(auth.role)
          THEN loc = Location(last.path, Null) /\ page = last.path
          ELSE loc = Location("/overview", Null)

\* a scientist asked for /metrics and was sent to /overview
C3_Witness ==
    /\ last = Event("visit", "/metrics")
    /\ auth.role = "scientist"
    /\ IsAuthed(auth)
    /\ page = "/overview"

\* the path a login that found `from` in the navigation state should go to
SpecTarget(from) == IF from = Null THEN "/overview" ELSE from

\* C4 as stated: a successful login (with either role) ends on the path the
\* guard remembered, or on /overview if none was remembered.
C4_LoginLandsOnRemembered ==
    (last.op = "loginOk" /\ IsAuthed(auth) /\ auth.role \in SpecRoles) =>
        /\ loc.pathname = SpecTarget(last.path)
        /\ page = SpecTarget(last.path)

\* C4 amended: a successful login ends on the remembered path (or /overview
\* if none) when the new role's allow-list includes it, and on /overview
\* when it does not.
C4_LoginLandsOnRememberedIfAllowed ==
    (last.op = "loginOk" /\ IsAuthed(auth) /\ auth.role \in SpecRoles) =>
        LET go == SpecTarget(last.path)
            target == IF go \in SpecAllowList(auth.role) THEN go ELSE "/overview"
        IN loc = Location(target, Null) /\ page = target

\* redirected from /predict, then logged in: /predict is rendered
C4_Witness ==
    /\ last = Event("loginOk", "/predict")
    /\ IsAuthed(auth)
    /\ page = "/predict"

\* C5: a successful signup ends on the remembered original path (the route
\* the anonymous user first asked for), or on /overview if none was
\* remembered.  (last.path of a signupOk event is the path the guard last
\* handed to /signin.)
C5_SignupLandsOnRemembered ==
    (/\ last.op = "signupOk"
     /\ IsAuthed(auth)
     /\ SpecTarget(last.path) \in SpecAllowList(auth.role)) =>
        page = SpecTarget(last.path)

\* C6: logout clears token, role and email in memory and in storage, and
\* until the next login or signup answer every protected-route request takes
\* the anonymous branch.
C6_LogoutClears ==
    /\ last.op = "logout" =>
          /\ auth = NoSession
          /\ \A k \in Keys : storage[k] = Null
    /\ sinceLogout =>
          /\ ~IsAuthed(auth)
          /\ storage["token"] = Null
          /\ page \notin ProtectedPaths
          /\ last.path \in ProtectedPaths =>
                loc = Location("/signin", last.path)

\* after a logout, a new request for /metrics was sent to /signin
C6_Witness ==
    /\ sinceLogout
    /\ last = Event("visit", "/metrics")
    /\ loc = Location("/signin", "/metrics")

\* C7: the session read back from storage equals the in-memory session, and
\* the session counts as logged in exactly when the token key is present.
C7_StoredSessionAgrees ==
    /\ readStored(storage) = auth
    /\ IsAuthed(auth) <=> storage["token"] # Null

-----------------------------------------------------------------------------
(* Overview page: metrics state and the statistics derived from it.         *)
(* A metrics object is the sequence of its entries [id, m] in key order; a  *)
(* rate is None (null) or the fraction <<numerator, denominator>>.          *)

DEPLOYED_MODELS ==
    ("k-nn_(optimized)" :> "L2NN (Euclidean)") @@ ("random_forest" :> "Random Forest")

Entry(id, m) == [id |-> id, m |-> m]

MetricsRecord(name, auc, accuracy, error, tn, fp, fn, tp) ==
    [name |-> name, auc |-> auc, accuracy |-> accuracy, error |-> error,
     tn |-> tn, fp |-> fp, fn |-> fn, tp |-> tp]

\* the filter of pickBestModel: DEPLOYED_MODELS[modelId] && m && !m.error
Deployed(e) ==
    /\ e.id \in DOMAIN DEPLOYED_MODELS
    /\ e.m # None
    /\ ~Truthy(e.m[1].error)

\* mutant: ties on AUC are not broken by accuracy
Compare_AucOnly(a, b) ==
    LET aucA == Nullish(a.m[1].auc, -1)
        aucB == Nullish(b.m[1].auc, -1)
    IN aucB - aucA

\* the comparator of entries.sort: AUC descending, then accuracy descending
Compare(a, b) ==
    LET aucA == Nullish(a.m[1].auc, -1)
        aucB == Nullish(b.m[1].auc, -1)
        accA == Nullish(a.m[1].accuracy, -1)
        accB == Nullish(b.m[1].accuracy, -1)
    IN IF aucB # aucA THEN aucB - aucA ELSE accB - accA

\* Array.prototype.sort is stable: x goes before the first element it is
\* strictly smaller than, and after every element it ties with.
RECURSIVE InsertStable(_, _)
InsertStable(x, sorted) ==
    IF sorted = <<>> THEN <<x>>
    ELSE IF Compare(x, Head(sorted)) < 0 THEN <<x>> \o sorted
    ELSE <<Head(sorted)>> \o InsertStable(x, Tail(sorted))

RECURSIVE SortPrefix(_, _)
SortPrefix(entries, n) ==
    IF n = 0 THEN <<>> ELSE InsertStable(entries[n], SortPrefix(entries, n - 1))

Sort(entries) == SortPrefix(entries, Len(entries))

\* { id: bestId, name: DEPLOYED_MODELS[bestId], ...best }: a name of the
\* record itself is spread over the display name
Spread(id, name, m) ==
    [id |-> id, name |-> Nullish(m.name, name), auc |-> m.auc,
     accuracy |-> m.accuracy, error |-> m.error,
     tn |-> m.tn, fp |-> m.fp, fn |-> m.fn, tp |-> m.tp]

pickBestModel(metricsObj) ==
    LET entries == SelectSeq(metricsObj, Deployed)
    IN IF entries = <<>> THEN None
       ELSE LET e == Sort(entries)[1]
            IN Some(Spread(e.id, DEPLOYED_MODELS[e.id], e.m[1]))

best == pickBestModel(metrics)

\* the "Recommended model" card renders best?.name: the model it presents
\* is the one the headline KPIs are computed from
recommendedModel == best

\* mutant: the denominator is taken from the predicted positives
recall_Precision ==
    IF best = None THEN None
    ELSE LET tp == best[1].tp
             fp == best[1].fp
         IN IF tp = None \/ fp = None THEN None
            ELSE IF tp[1] + fp[1] = 0 THEN None
            ELSE <<tp[1], tp[1] + fp[1]>>

recall ==
    IF best = None THEN None
    ELSE LET tp == best[1].tp
             fn == best[1].fn
         IN IF tp = None \/ fn = None THEN None
            ELSE IF tp[1] + fn[1] = 0 THEN None
            ELSE <<tp[1], tp[1] + fn[1]>>

specificity ==
    IF best = None THEN None
    ELSE LET tn == best[1].tn
             fp == best[1].fp
         IN IF tn = None \/ fp = None THEN None
            ELSE IF tn[1] + fp[1] = 0 THEN None
            ELSE <<tn[1], tn[1] + fp[1]>>

fnRate ==
    IF best = None THEN None
    ELSE LET fn == best[1].fn
             tp == best[1].tp
         IN IF fn = None \/ tp = None THEN None
            ELSE IF fn[1] + tp[1] = 0 THEN None
            ELSE <<fn[1], fn[1] + tp[1]>>

\* a <= b for fractions with positive denominators
RatLeq(a, b) == a[1] * b[2] <= b[1] * a[2]

\* the literal 0.02
FN_WARN == <<2, 100>>

\* mutant: the warn band excludes its upper end
fnSeverity_Strict ==
    IF fnRate = None THEN "unknown"
    ELSE IF fnRate[1] = 0 THEN "safe"
    ELSE IF RatLeq(fnRate, FN_WARN) /\ ~RatLeq(FN_WARN, fnRate) THEN "warn"
    ELSE "bad"

fnSeverity ==
    IF fnRate = None THEN "unknown"
    ELSE IF fnRate[1] = 0 THEN "safe"
    ELSE IF RatLeq(fnRate, FN_WARN) THEN "warn"
    ELSE "bad"

-----------------------------------------------------------------------------
(* Overview page: inputs and events *)

\* AUC and accuracy values the backend reports: 0 .. MaxScore
MaxScore == 1

\* confusion counts the backend reports: 0 .. MaxCount, and the pairs below
MaxCount == 2

Opt(S) == {None} \cup {Some(v) : v \in S}

Scores == 0 .. MaxScore

Counts == 0 .. MaxCount

\* <<tp, fn>>: every small pair, the scenario of the specification (33, 2)
\* and pairs around the 0.02 threshold
TpFnPairs ==
    (Opt(Counts) \X Opt(Counts))
        \cup {<<Some(33), Some(2)>>, <<Some(48), Some(1)>>, <<Some(49), Some(1)>>,
              <<Some(50), Some(1)>>, <<Some(98), Some(2)>>}

\* <<tn, fp>>
TnFpPairs == (Opt(Counts) \X Opt(Counts)) \cup {<<Some(80), Some(5)>>}

\* records that differ in their confusion counts
CountRecords ==
    {MetricsRecord(None, Some(1), Some(1), Undefined, n[1], n[2], p[2], p[1]) :
        p \in TpFnPairs, n \in TnFpPairs}

\* records that differ in what the ranking reads
RankRecords ==
    {MetricsRecord(Some("from backend"), auc, acc, err,
                   Some(80), Some(5), Some(2), Some(33)) :
        auc \in Opt(Scores), acc \in Opt(Scores), err \in {Undefined, "failed"}}

\* a model the backend reports that is not deployed, with the best scores
OtherEntry ==
    Entry("svm", Some(MetricsRecord(Some("SVM"), Some(MaxScore), Some(MaxScore),
                                    Undefined, Some(85), Some(0), Some(0), Some(35))))

InsertAt(seq, k, x) == SubSeq(seq, 1, k - 1) \o <<x>> \o SubSeq(seq, k, Len(seq))

\* the two deployed ids in either key order
IdOrders ==
    {ids \in (DOMAIN DEPLOYED_MODELS) \X (DOMAIN DEPLOYED_MODELS) : ids[1] # ids[2]}

DeployedPairs ==
    {<<Entry(ids[1], r1), Entry(ids[2], r2)>> :
        ids \in IdOrders, r1 \in Opt(RankRecords), r2 \in Opt(RankRecords)}

\* records that differ in AUC and in missed positives (fn of 35 positives)
PolicyRecords ==
    {MetricsRecord(None, Some(auc), Some(1), Undefined,
                   Some(80), Some(5), Some(fn), Some(35 - fn)) :
        auc \in Scores, fn \in Counts}

PolicyPairs ==
    {<<Entry(ids[1], Some(r1)), Entry(ids[2], Some(r2))>> :
        ids \in IdOrders, r1 \in PolicyRecords, r2 \in PolicyRecords}

\* the /metrics answers considered
MetricsAnswers ==
    {<<>>, <<OtherEntry>>}
        \cup {<<Entry(i, Some(r))>> : i \in DOMAIN DEPLOYED_MODELS, r \in CountRecords}
        \cup DeployedPairs
        \cup PolicyPairs
        \cup {InsertAt(pr, k, OtherEntry) : pr \in DeployedPairs, k \in 1 .. 3}

DatasetAnswers == {Null, "wdbc"}

MonitoringAnswers == {Null, "summary"}

\* The load effect, all three fetches fulfilled (a rejected monitoring
\* fetch counts as null): the four setters of the try block.
OverviewLoadOk ==
    /\ ovLoad = "pending"
    /\ \E ds \in DatasetAnswers, met \in Opt(MetricsAnswers), mon \in MonitoringAnswers :
          /\ datasetInfo' = ds
          /\ metrics' = Nullish(met, <<>>)
          /\ monitoring' = mon
    /\ errorMsg' = ""
    /\ ovLoad' = "done"
    /\ UNCHANGED <<authVars, metricsPageVars, predictVars, pageVars>>

\* The load effect, fetchDatasetInfo or fetchMetrics rejected: the catch block.
OverviewLoadFail ==
    /\ ovLoad = "pending"
    /\ errorMsg' = "Failed to load overview data."
    /\ ovLoad' = "done"
    /\ UNCHANGED <<metrics, datasetInfo, monitoring>>
    /\ UNCHANGED <<authVars, metricsPageVars, predictVars, pageVars>>

\* The page is left and opened again: a new component with its initial state.
OverviewRemount ==
    /\ ovLoad = "done"
    /\ metrics' = <<>>
    /\ datasetInfo' = Null
    /\ monitoring' = Null
    /\ errorMsg' = ""
    /\ ovLoad' = "pending"
    /\ UNCHANGED <<authVars, metricsPageVars, predictVars, pageVars>>

\* a signed-in scientist has opened /overview
AtOverview ==
    /\ storage = loginStorage("jwt1", "scientist", "a@lab.com")
    /\ auth = loginAuth("jwt1", "scientist", "a@lab.com")
    /\ loc = Location("/overview", Null)
    /\ page = "/overview"
    /\ inflight = {}
    /\ form = NoForm
    /\ last = Event("loginOk", Null)
    /\ sinceLogout = FALSE
    /\ remembered = Null

OverviewInit == AtOverview /\ PagesUnmounted

OverviewNext ==
    \/ OverviewLoadOk
    \/ OverviewLoadFail
    \/ OverviewRemount

OverviewSpec == OverviewInit /\ [][OverviewNext]_vars

-----------------------------------------------------------------------------
(* Metrics aggregation: claims C8 - C10 *)

\* a / (a + b) as the specification defines a rate: null when a count is
\* missing or the denominator is zero
SpecRate(a, b) ==
    IF a = None \/ b = None THEN None
    ELSE IF a[1] + b[1] = 0 THEN None
    ELSE <<a[1], a[1] + b[1]>>

\* 0 <= r <= 1
InUnitInterval(r) == r # None /\ 0 <= r[1] /\ r[1] <= r[2]

\* r1 + r2 = 1
SumIsOne(r1, r2) ==
    r1 # None /\ r2 # None /\ r1[1] * r2[2] + r2[1] * r1[2] = r1[2] * r2[2]

Positive(a, b) == a # None /\ b # None /\ a[1] + b[1] > 0

\* C8: recall = tp/(tp+fn), specificity = tn/(tn+fp), fnr = fn/(fn+tp), each
\* null exactly when its denominator is zero or a count is missing; when
\* tp+fn > 0 and tn+fp > 0, recall and specificity lie in [0,1] and
\* recall + fnr = 1.
C8_RatesFromCounts ==
    best # None =>
        LET b == best[1] IN
        /\ recall = SpecRate(b.tp, b.fn)
        /\ specificity = SpecRate(b.tn, b.fp)
        /\ fnRate = SpecRate(b.fn, b.tp)
        /\ recall = None <=> ~Positive(b.tp, b.fn)
        /\ specificity = None <=> ~Positive(b.tn, b.fp)
        /\ fnRate = None <=> ~Positive(b.fn, b.tp)
        /\ (Positive(b.tp, b.fn) /\ Positive(b.tn, b.fp)) =>
              /\ InUnitInterval(recall)
              /\ InUnitInterval(specificity)
              /\ SumIsOne(recall, fnRate)

\* the counts {tn:80, fp:5, fn:2, tp:33} give recall 33/35 and
\* specificity 80/85
C8_Witness ==
    /\ ovLoad = "done"
    /\ best # None
    /\ recall = <<33, 35>>
    /\ specificity = <<80, 85>>
    /\ fnRate = <<2, 35>>

\* C9: the banner severity is 'unknown' when fnr is undefined, 'safe' when
\* fnr = 0, 'warn' when 0 < fnr <= 0.02 and 'bad' when fnr > 0.02; exactly
\* one class applies, and the counts {tn:80, fp:5, fn:2, tp:33} are 'bad'.
C9_SeverityClasses ==
    LET defined == best # None /\ Positive(best[1].fn, best[1].tp)
        fn == best[1].fn[1]
        tp == best[1].tp[1]
    IN /\ fnSeverity \in {"unknown", "safe", "warn", "bad"}
       /\ fnSeverity = "unknown" <=> ~defined
       /\ fnSeverity = "safe" <=> (defined /\ fn = 0)
       /\ fnSeverity = "warn" <=> (defined /\ 0 < fn /\ 50 * fn <= fn + tp)
       /\ fnSeverity = "bad" <=> (defined /\ 50 * fn > fn + tp)
       /\ (/\ best # None
           /\ best[1].tn = Some(80) /\ best[1].fp = Some(5)
           /\ best[1].fn = Some(2) /\ best[1].tp = Some(33)) => fnSeverity = "bad"

\* fn = 1 of 50 positives: fnr is exactly 0.02, the upper end of 'warn'
C9_Witness ==
    /\ ovLoad = "done"
    /\ best # None
    /\ best[1].fn = Some(1)
    /\ best[1].tp = Some(49)
    /\ fnSeverity = "warn"

\* eligible for 'best model': a deployed model whose record has no error marker
Eligible(obj) == {i \in DOMAIN obj : Deployed(obj[i])}

\* the record at j ranks strictly above the record at i under policy (i); a
\* missing AUC or accuracy ranks below every reported one
RanksAbove(obj, j, i) ==
    LET aucJ == Nullish(obj[j].m[1].auc, -1)
        aucI == Nullish(obj[i].m[1].auc, -1)
        accJ == Nullish(obj[j].m[1].accuracy, -1)
        accI == Nullish(obj[i].m[1].accuracy, -1)
    IN aucJ > aucI \/ (aucJ = aucI /\ accJ > accI)

Permuted(obj, f) == [i \in DOMAIN obj |-> obj[f[i]]]

BestId(obj) == IF pickBestModel(obj) = None THEN Null ELSE pickBestModel(obj)[1].id

-----------------------------------------------------------------------------
(* Ranking policies: claim C11 *)

\* a < b for fractions with positive denominators
RatLess(a, b) == a[1] * b[2] < b[1] * a[2]

\* the record at j ranks strictly above the record at i under policy (ii):
\* lower FNR, then higher AUC
RanksAboveByFnr(obj, j, i) ==
    LET fnrJ == SpecRate(obj[j].m[1].fn, obj[j].m[1].tp)
        fnrI == SpecRate(obj[i].m[1].fn, obj[i].m[1].tp)
        aucJ == Nullish(obj[j].m[1].auc, -1)
        aucI == Nullish(obj[i].m[1].auc, -1)
    IN \/ RatLess(fnrJ, fnrI)
       \/ (~RatLess(fnrI, fnrJ) /\ aucJ > aucI)

\* every eligible record has a defined FNR
FnrKnown(obj) ==
    \A i \in Eligible(obj) : Positive(obj[i].m[1].fn, obj[i].m[1].tp)

\* C11: the model presented as 'recommended model' is ranked first by
\* policy (ii) (lowest FNR, then highest AUC) over the loaded records, and
\* the 'best model' of the headline KPIs is ranked first by policy (i);
\* neither stands in for the other.
C11_RecommendedByFnr ==
    LET elig == Eligible(metrics) IN
    (recommendedModel # None /\ FnrKnown(metrics)) =>
        /\ \E i \in elig :
              /\ recommendedModel[1].id = metrics[i].id
              /\ \A j \in elig : ~RanksAboveByFnr(metrics, j, i)
        /\ \E i \in elig :
              /\ best[1].id = metrics[i].id
              /\ \A j \in elig : ~RanksAbove(metrics, j, i)


-----------------------------------------------------------------------------
(* Metrics page: the evaluation report and what the page derives from it.   *)
(* The report is built by the backend, whose ranking is not part of the     *)
(* client sources: rankModels and evaluationReport follow the               *)
(* specification's policy (ii).                                             *)

EvaluationRow(model_id, fnr, auc) == [model_id |-> model_id, fnr |-> fnr, auc |-> auc]

\* policy (ii): a goes before b when its FNR is lower, or equal with a higher AUC
RankBefore(a, b) == a.fnr < b.fnr \/ (a.fnr = b.fnr /\ a.auc > b.auc)

\* stable insertion: x goes after every record it ties with
RECURSIVE InsertRanked(_, _)
InsertRanked(x, ranked) ==
    IF ranked = <<>> THEN <<x>>
    ELSE IF RankBefore(x, Head(ranked)) THEN <<x>> \o ranked
    ELSE <<Head(ranked)>> \o InsertRanked(x, Tail(ranked))

RECURSIVE RankPrefix(_, _)
RankPrefix(records, n) ==
    IF n = 0 THEN <<>> ELSE InsertRanked(records[n], RankPrefix(records, n - 1))

rankModels(records) == RankPrefix(records, Len(records))

\* GET /evaluation-report: the ranked rows and, when the backend declares
\* it, the id of the first row
evaluationReport(records, declared) ==
    [rows |-> rankModels(records),
     recommended_model_id |->
        IF declared /\ records # <<>> THEN rankModels(records)[1].model_id
        ELSE Undefined]

\* the ids the backend has evaluated: the deployed models and one more
ReportIds == DOMAIN DEPLOYED_MODELS \cup {"svm"}

IdSeqs ==
    {<<>>} \cup {<<a>> : a \in ReportIds}
        \cup {ids \in ReportIds \X ReportIds : ids[1] # ids[2]}
        \cup {ids \in ReportIds \X ReportIds \X ReportIds :
                ids[1] # ids[2] /\ ids[1] # ids[3] /\ ids[2] # ids[3]}

\* the backend's evaluation records, in registration order
RecordSeqs ==
    UNION {{[i \in DOMAIN ids |-> EvaluationRow(ids[i], fa[i][1], fa[i][2])] :
                fa \in [DOMAIN ids -> Scores \X Scores]} : ids \in IdSeqs}

\* const rows = report?.rows ?? []
rows == IF report = None THEN <<>> ELSE report[1].rows

\* report?.recommended_model_id
recommended_model_id ==
    IF report = None THEN Undefined ELSE report[1].recommended_model_id

\* rs.find((r) => r.model_id === id), None when there is no such row
RECURSIVE Find(_, _)
Find(rs, id) ==
    IF rs = <<>> THEN None
    ELSE IF Head(rs).model_id = id THEN Some(Head(rs))
    ELSE Find(Tail(rs), id)

selectedRow == Find(rows, selectedId)

recommendedRow ==
    IF Find(rows, recommended_model_id) # None THEN Find(rows, recommended_model_id)
    ELSE IF rows # <<>> THEN Some(rows[1])
    ELSE None

\* mutant: the leaderboard lists the rows last to first
Leaderboard_Reversed(rs) == [i \in DOMAIN rs |-> rs[Len(rs) + 1 - i]]

\* the Model Leaderboard: rows.map, one button per row in the order of rows
Leaderboard(rs) == [i \in DOMAIN rs |-> rs[i]]

\* json?.recommended_model_id ?? json?.rows?.[0]?.model_id ?? ""
InitialSelection(json) ==
    IF json.recommended_model_id \notin {Null, Undefined} THEN json.recommended_model_id
    ELSE IF json.rows # <<>> THEN json.rows[1].model_id
    ELSE ""

\* the bodies GET /evaluation-report answers with: the backend's report, with
\* or without its recommendation, and one whose recommended_model_id names
\* a model that has no row
ReportAnswers(recs) ==
    {evaluationReport(recs, declared) : declared \in BOOLEAN}
        \cup {[evaluationReport(recs, TRUE) EXCEPT
                  !.recommended_model_id = "retired_model"]}

\* The load effect, request fulfilled: setReport, setSelectedId, and
\* setLoading(false) of the finally block.
MetricsLoadOk ==
    /\ mtLoading
    /\ \E recs \in RecordSeqs :
          \E json \in ReportAnswers(recs) :
              /\ evaluated' = recs
              /\ report' = Some(json)
              /\ selectedId' = InitialSelection(json)
    /\ mtLoading' = FALSE
    /\ UNCHANGED mtErr
    /\ UNCHANGED <<authVars, overviewVars, predictVars, pageVars>>

\* The load effect, request rejected: setErr and setLoading(false).
MetricsLoadFail ==
    /\ mtLoading
    /\ mtErr' = "Network Error"
    /\ mtLoading' = FALSE
    /\ UNCHANGED <<report, selectedId, evaluated>>
    /\ UNCHANGED <<authVars, overviewVars, predictVars, pageVars>>

\* The selector's onChange or a leaderboard button's onClick: setSelectedId.
SelectModel ==
    /\ ~mtLoading
    /\ mtErr = Null
    /\ \E i \in DOMAIN rows : selectedId' = rows[i].model_id
    /\ UNCHANGED <<report, mtLoading, mtErr, evaluated>>
    /\ UNCHANGED <<authVars, overviewVars, predictVars, pageVars>>

\* The page is left and opened again: a new component with its initial state.
MetricsRemount ==
    /\ ~mtLoading
    /\ report' = None
    /\ selectedId' = ""
    /\ mtLoading' = TRUE
    /\ mtErr' = Null
    /\ evaluated' = <<>>
    /\ UNCHANGED <<authVars, overviewVars, predictVars, pageVars>>

\* a signed-in data scientist has opened /metrics
AtMetrics ==
    /\ storage = loginStorage("jwt1", "data_scientist", "a@lab.com")
    /\ auth = loginAuth("jwt1", "data_scientist", "a@lab.com")
    /\ loc = Location("/metrics", Null)
    /\ page = "/metrics"
    /\ inflight = {}
    /\ form = NoForm
    /\ last = Event("loginOk", Null)
    /\ sinceLogout = FALSE
    /\ remembered = Null

MetricsInit == AtMetrics /\ PagesUnmounted

MetricsNext ==
    \/ MetricsLoadOk
    \/ MetricsLoadFail
    \/ SelectModel
    \/ MetricsRemount

MetricsSpec == MetricsInit /\ [][MetricsNext]_vars

-----------------------------------------------------------------------------
(* Leaderboard order: claim C12 *)

Tuples(rs) == [i \in DOMAIN rs |-> <<rs[i].fnr, rs[i].auc>>]

\* the position of the record with the id of r in the sequence rs
Position(rs, r) == CHOOSE i \in DOMAIN rs : rs[i].model_id = r.model_id

-----------------------------------------------------------------------------
(* Deployment allow-list: claim C15 *)

\* the model ids the Metrics page displays or offers for selection: the
\* options of the selector, the leaderboard buttons and the inspected row
MetricsExposedIds ==
    {Leaderboard(rows)[i].model_id : i \in DOMAIN rows}
        \cup (IF selectedRow = None THEN {} ELSE {selectedRow[1].model_id})
        \cup (IF recommendedRow = None THEN {} ELSE {recommendedRow[1].model_id})

\* C15: every feed that carries model ids retains only the ids of the
\* deployment allow-list before a view reads it: a model the backend
\* reports that is not listed is never displayed or selectable.
C15_OnlyDeployedExposed ==
    /\ MetricsExposedIds \subseteq DOMAIN DEPLOYED_MODELS
    /\ selectedId \in DOMAIN DEPLOYED_MODELS \cup {""}

-----------------------------------------------------------------------------
(* Predict page: the store filled by the init effect.                       *)
(* An object is the sequence of its entries [id, m] in key order; a fetch   *)
(* settles as Rejected or as Fulfilled(body), and a body is None (null or   *)
(* undefined) or Some(value).                                               *)

PREDICT_DEPLOYED_MODELS ==
    ("k-nn_(optimized)" :> "k-nn_(optimized)") @@ ("random_forest" :> "Random Forest")

Rejected == None

Fulfilled(body) == Some(body)

\* body || fallback
OrElse(body, fallback) == IF body = None THEN fallback ELSE body[1]

\* filterToDeployed: the entries whose key has a display name, in key order
filterToDeployed(obj) ==
    SelectSeq(obj, LAMBDA e : e.id \in DOMAIN PREDICT_DEPLOYED_MODELS)

\* Object.keys(obj)
ObjectKeys(obj) == [i \in DOMAIN obj |-> obj[i].id]

\* const defaults = {}; (feat || []).forEach((f) => (defaults[f] = 0))
Defaults(feat) == [f \in {feat[i] : i \in DOMAIN feat} |-> 0]

\* numbers of the feature statistics and of the patient record are counted
\* in units of 0.00001
Unit == 100000

Stats(mean, std, min, max) == [mean |-> mean, std |-> std, min |-> min, max |-> max]

\* smoothness_se of the WDBC data: 0.00171 .. 0.03113, mean 0.00704, std 0.00300
SmoothnessStats == Stats(Some(704), Some(300), Some(171), Some(3113))

\* radius_mean of the WDBC data: 6.981 .. 28.11, mean 14.127, std 3.524
RadiusStats == Stats(Some(1412700), Some(352400), Some(698100), Some(2811000))

FullRanges == ("smoothness_se" :> SmoothnessStats) @@ ("radius_mean" :> RadiusStats)

\* the answer lacks the bounds of smoothness_se
PartialRanges ==
    ("smoothness_se" :> Stats(Some(704), Some(300), None, None))
        @@ ("radius_mean" :> RadiusStats)

RegistryEntry(id) == Entry(id, [name |-> id])

\* every fetch fulfilled with a full body
AllLoaded ==
    [m |-> Fulfilled(Some(<<RegistryEntry("svm"), RegistryEntry("random_forest"),
                            RegistryEntry("k-nn_(optimized)")>>)),
     feat |-> Fulfilled(Some(<<"smoothness_se">>)),
     met |-> Fulfilled(Some(<<Entry("svm", "metrics of svm"),
                              Entry("random_forest", "metrics of random_forest")>>)),
     ranges |-> Fulfilled(Some(FullRanges)),
     ds |-> Fulfilled(Some("wdbc")),
     ev |-> Fulfilled(Some("table"))]

\* GET /features answers with two features
TwoFeatures == Fulfilled(Some(<<"smoothness_se", "radius_mean">>))

\* How the six fetches of Promise.all may settle: rejected, fulfilled with no
\* body, or fulfilled as in AllLoaded (GET /models also with the one model
\* that is not deployed, GET /features also with two features, GET
\* /feature-ranges also with PartialRanges); at most two of them settle
\* otherwise than in AllLoaded, and the two features come with the models,
\* the metrics, the dataset and the table of AllLoaded.
LoadOutcomes ==
    {o \in [m : {Rejected, Fulfilled(None), AllLoaded.m,
                 Fulfilled(Some(<<RegistryEntry("svm")>>))},
            feat : {Rejected, Fulfilled(None), AllLoaded.feat,
                    TwoFeatures},
            met : {Rejected, Fulfilled(None), AllLoaded.met},
            ranges : {Rejected, Fulfilled(None), AllLoaded.ranges,
                      Fulfilled(Some(PartialRanges))},
            ds : {Rejected, Fulfilled(None), AllLoaded.ds},
            ev : {Rejected, Fulfilled(None), AllLoaded.ev}] :
        /\ Cardinality({k \in DOMAIN o : o[k] # AllLoaded[k]}) <= 2
        /\ o.feat = TwoFeatures =>
              \A k \in {"m", "met", "ds", "ev"} : o[k] = AllLoaded[k]}

\* Promise.all rejects when a fetch without a catch of its own rejects
Aborts(o) == Rejected \in {o.m, o.feat, o.met, o.ranges}

\* mutant: the init sets the registry before it awaits the other fetches
PredictLoadFail_ModelsFirst ==
    /\ pdLoad = "pending"
    /\ \E o \in LoadOutcomes :
          /\ Aborts(o)
          /\ fetched' = Some(o)
          /\ models' = IF o.m = Rejected THEN models
                       ELSE filterToDeployed(OrElse(o.m[1], <<>>))
    /\ pdErrorMsg' = "Could not load backend data. Network Error"
    /\ pdLoad' = "done"
    /\ pdLast' = [op |-> "init", draws |-> <<>>]
    /\ UNCHANGED <<pdMetrics, features, selectedModelId, patientData, prediction,
                   loading, featureRanges, pdDatasetInfo, evalTable, calls>>
    /\ UNCHANGED <<authVars, overviewVars, metricsPageVars, pageVars>>

\* init, Promise.all rejected: the catch block sets errorMsg
PredictLoadFail ==
    /\ pdLoad = "pending"
    /\ \E o \in LoadOutcomes :
          /\ Aborts(o)
          /\ fetched' = Some(o)
    /\ pdErrorMsg' = "Could not load backend data. Network Error"
    /\ pdLoad' = "done"
    /\ pdLast' = [op |-> "init", draws |-> <<>>]
    /\ UNCHANGED <<models, pdMetrics, features, selectedModelId, patientData,
                   prediction, loading, featureRanges, pdDatasetInfo, evalTable, calls>>
    /\ UNCHANGED <<authVars, overviewVars, metricsPageVars, pageVars>>

\* init, Promise.all fulfilled: the setters after the await, applied together
PredictLoadOk ==
    /\ pdLoad = "pending"
    /\ \E o \in LoadOutcomes :
          LET models2 == filterToDeployed(OrElse(o.m[1], <<>>))
              metrics2 == filterToDeployed(OrElse(o.met[1], <<>>))
              feat == OrElse(o.feat[1], <<>>)
              ids == ObjectKeys(models2)
          IN /\ ~Aborts(o)
             /\ fetched' = Some(o)
             /\ models' = models2
             /\ features' = feat
             /\ pdMetrics' = metrics2
             /\ featureRanges' = OrElse(o.ranges[1], <<>>)
             /\ pdDatasetInfo' = IF o.ds = Rejected THEN "{}" ELSE OrElse(o.ds[1], "{}")
             /\ evalTable' = IF o.ev = Rejected THEN "[]" ELSE OrElse(o.ev[1], "[]")
             /\ selectedModelId' = IF ids # <<>> THEN ids[1] ELSE selectedModelId
             /\ patientData' = Defaults(feat)
    /\ pdLoad' = "done"
    /\ pdLast' = [op |-> "init", draws |-> <<>>]
    /\ UNCHANGED <<prediction, pdErrorMsg, loading, calls>>
    /\ UNCHANGED <<authVars, overviewVars, metricsPageVars, pageVars>>

\* The page is left and opened again: a new component with its initial
\* state; what the old component awaited no longer reaches any state.
PredictRemount ==
    /\ pdLoad = "done"
    /\ models' = <<>>
    /\ pdMetrics' = <<>>
    /\ features' = <<>>
    /\ selectedModelId' = Null
    /\ patientData' = <<>>
    /\ prediction' = None
    /\ pdErrorMsg' = ""
    /\ loading' = FALSE
    /\ featureRanges' = <<>>
    /\ pdDatasetInfo' = "{}"
    /\ evalTable' = "[]"
    /\ pdLoad' = "pending"
    /\ calls' = {}
    /\ fetched' = None
    /\ pdLast' = [op |-> "mount", draws |-> <<>>]
    /\ UNCHANGED <<authVars, overviewVars, metricsPageVars, pageVars>>

\* The model selector's onClick: setSelectedModelId(id).
SelectPredictModel ==
    /\ \E i \in DOMAIN models : selectedModelId' = models[i].id
    /\ pdLast' = [op |-> "select", draws |-> <<>>]
    /\ UNCHANGED <<models, pdMetrics, features, patientData, prediction, pdErrorMsg,
                   loading, featureRanges, pdDatasetInfo, evalTable, pdLoad, calls,
                   fetched>>
    /\ UNCHANGED <<authVars, overviewVars, metricsPageVars, pageVars>>

\* the texts typed into a feature's number input
Texts == {"", "12.5"}

\* parseFloat(text): None is NaN
parseFloat(text) == IF text = "12.5" THEN Some(1250000) ELSE None

\* mutant: the edit forgets to spread the previous record
handleFeatureChange_DropsOthers ==
    /\ \E i \in DOMAIN features, value \in Texts :
          /\ patientData' = (features[i] :> OrElse(parseFloat(value), 0))
          /\ pdLast' = [op |-> "change", draws |-> <<features[i], value>>]
    /\ UNCHANGED <<models, pdMetrics, features, selectedModelId, prediction,
                   pdErrorMsg, loading, featureRanges, pdDatasetInfo, evalTable,
                   pdLoad, calls, fetched>>
    /\ UNCHANGED <<authVars, overviewVars, metricsPageVars, pageVars>>

\* handleFeatureChange: { ...prev, [feat]: parseFloat(value) || 0 }
handleFeatureChange ==
    /\ \E i \in DOMAIN features, value \in Texts :
          /\ patientData' =
                [f \in DOMAIN patientData \cup {features[i]} |->
                   IF f = features[i] THEN OrElse(parseFloat(value), 0)
                   ELSE patientData[f]]
          /\ pdLast' = [op |-> "change", draws |-> <<features[i], value>>]
    /\ UNCHANGED <<models, pdMetrics, features, selectedModelId, prediction,
                   pdErrorMsg, loading, featureRanges, pdDatasetInfo, evalTable,
                   pdLoad, calls, fetched>>
    /\ UNCHANGED <<authVars, overviewVars, metricsPageVars, pageVars>>

\* the button of a handler is enabled: disabled={loading || !selectedModelId}
Enabled == ~loading /\ selectedModelId # Null

\* handlePredict up to its await: setLoading(true), setErrorMsg(""), and the
\* POST /predict with the selected model and the patient record
handlePredict ==
    /\ Enabled
    /\ loading' = TRUE
    /\ pdErrorMsg' = ""
    /\ calls' = calls \cup {[modelId |-> selectedModelId, data |-> patientData]}
    /\ pdLast' = [op |-> "predict", draws |-> <<>>]
    /\ UNCHANGED <<models, pdMetrics, features, selectedModelId, patientData,
                   prediction, featureRanges, pdDatasetInfo, evalTable, pdLoad,
                   fetched>>
    /\ UNCHANGED <<authVars, overviewVars, metricsPageVars, pageVars>>

\* the bodies POST /predict answers with under a 2xx status: either class,
\* a class the model does not have, and a body with no prediction field
PredictAnswers ==
    {[prediction |-> 0], [prediction |-> 1], [prediction |-> 2],
     [detail |-> "no prediction"]}

\* handlePredict after its await, request fulfilled: setPrediction(res) and
\* setLoading(false) of the finally block
PredictOk ==
    /\ \E c \in calls, res \in PredictAnswers :
          /\ calls' = calls \ {c}
          /\ prediction' = Some(res)
    /\ loading' = FALSE
    /\ pdLast' = [op |-> "predictOk", draws |-> <<>>]
    /\ UNCHANGED <<models, pdMetrics, features, selectedModelId, patientData,
                   pdErrorMsg, featureRanges, pdDatasetInfo, evalTable, pdLoad,
                   fetched>>
    /\ UNCHANGED <<authVars, overviewVars, metricsPageVars, pageVars>>

\* mutant: the failed call keeps the prediction it found
PredictFail_KeepsPrediction ==
    /\ \E c \in calls : calls' = calls \ {c}
    /\ pdErrorMsg' = "Error calling prediction API."
    /\ loading' = FALSE
    /\ pdLast' = [op |-> "predictFail", draws |-> <<>>]
    /\ UNCHANGED <<models, pdMetrics, features, selectedModelId, patientData,
                   prediction, featureRanges, pdDatasetInfo, evalTable, pdLoad,
                   fetched>>
    /\ UNCHANGED <<authVars, overviewVars, metricsPageVars, pageVars>>

\* handlePredict after its await, request rejected (no answer, or a status
\* outside 2xx): the catch block and setLoading(false) of the finally block
PredictFail ==
    /\ \E c \in calls : calls' = calls \ {c}
    /\ prediction' = None
    /\ pdErrorMsg' = "Error calling prediction API."
    /\ loading' = FALSE
    /\ pdLast' = [op |-> "predictFail", draws |-> <<>>]
    /\ UNCHANGED <<models, pdMetrics, features, selectedModelId, patientData,
                   featureRanges, pdDatasetInfo, evalTable, pdLoad, fetched>>
    /\ UNCHANGED <<authVars, overviewVars, metricsPageVars, pageVars>>

-----------------------------------------------------------------------------
(* Patient sampler: the numbers.                                            *)
(* A draw of Math.random() is counted in fortieths (d stands for d / 40),   *)
(* a severity in units of 1 / 400, and a value before rounding is the       *)
(* fraction num / den of a unit.                                            *)

DrawUnit == 40

SUnit == 10 * DrawUnit

Abs(x) == IF x < 0 THEN -x ELSE x

Min(a, b) == IF a <= b THEN a ELSE b

Max(a, b) == IF a >= b THEN a ELSE b

\* featureRanges[feat]: None when the object has no such key
Lookup(obj, key) == IF key \in DOMAIN obj THEN Some(obj[key]) ELSE None

\* Number((num / den).toFixed(digits)), step being 10^-digits in units: the
\* nearest multiple of step, a half going away from zero
ToFixed(num, den, step) ==
    LET q == Abs(num) \div (den * step)
        r == Abs(num) % (den * step)
        n == IF 2 * r >= den * step THEN q + 1 ELSE q
    IN IF num < 0 THEN -(n * step) ELSE n * step

\* Math.abs(value) < 10 ? Number(value.toFixed(4)) : Number(value.toFixed(2))
Rounded(num, den) ==
    IF Abs(num) < 10 * Unit * den
      THEN ToFixed(num, den, Unit \div 10000)
      ELSE ToFixed(num, den, Unit \div 100)

\* Math.random() < 0.5 ? Math.random() * 0.4 : 0.6 + Math.random() * 0.4
Severity(coin, sev) ==
    IF 2 * coin < DrawUnit THEN 4 * sev ELSE 6 * DrawUnit + 4 * sev

\* (Math.random() - 0.5) * 0.1
Jitter(j) == j - DrawUnit \div 2

\* Math.min(1, Math.max(0, severity + jitter))
Scale(severity, jitter) == Min(SUnit, Max(0, severity + jitter))

\* stats.min + s * (stats.max - stats.min), as a number of 1 / SUnit units
Interpolated(stats, s) == stats.min[1] * SUnit + s * (stats.max[1] - stats.min[1])

\* !stats || stats.min == null || stats.max == null
NoBounds(stats) == stats = None \/ stats[1].min = None \/ stats[1].max = None

\* newData[feat] of autoFillRealisticVaried
VariedValue(ranges, feat, severity, j) ==
    LET stats == Lookup(ranges, feat) IN
    IF NoBounds(stats) THEN 0
    ELSE Rounded(Interpolated(stats[1], Scale(severity, Jitter(j))), SUnit)

FeatureSet == {features[i] : i \in DOMAIN features}

\* mutant: the fill keeps the prediction it found
autoFillRealisticVaried_KeepsPrediction(D) ==
    /\ Enabled
    /\ IF features = <<>>
         THEN /\ pdLast' = [op |-> "fillVaried", draws |-> <<>>]
              /\ UNCHANGED <<patientData, prediction, pdErrorMsg>>
         ELSE IF DOMAIN featureRanges = {}
         THEN /\ pdErrorMsg' = "Feature ranges not loaded. Check /feature-ranges in FastAPI."
              /\ pdLast' = [op |-> "fillVaried", draws |-> <<>>]
              /\ UNCHANGED <<patientData, prediction>>
         ELSE \E coin \in D, sev \in D, jit \in [FeatureSet -> D] :
                /\ pdErrorMsg' = ""
                /\ patientData' =
                      [f \in FeatureSet |->
                         VariedValue(featureRanges, f, Severity(coin, sev), jit[f])]
                /\ pdLast' = [op |-> "fillVaried", draws |-> <<coin, sev, jit>>]
                /\ UNCHANGED prediction
    /\ UNCHANGED <<models, pdMetrics, features, selectedModelId, loading,
                   featureRanges, pdDatasetInfo, evalTable, pdLoad, calls, fetched>>
    /\ UNCHANGED <<authVars, overviewVars, metricsPageVars, pageVars>>

\* autoFillRealisticVaried, run from its button, with the draws taken in D
autoFillRealisticVaried(D) ==
    /\ Enabled
    /\ IF features = <<>>
         THEN /\ pdLast' = [op |-> "fillVaried", draws |-> <<>>]
              /\ UNCHANGED <<patientData, prediction, pdErrorMsg>>
         ELSE IF DOMAIN featureRanges = {}
         THEN /\ pdErrorMsg' = "Feature ranges not loaded. Check /feature-ranges in FastAPI."
              /\ pdLast' = [op |-> "fillVaried", draws |-> <<>>]
              /\ UNCHANGED <<patientData, prediction>>
         ELSE \E coin \in D, sev \in D, jit \in [FeatureSet -> D] :
                /\ pdErrorMsg' = ""
                /\ prediction' = None
                /\ patientData' =
                      [f \in FeatureSet |->
                         VariedValue(featureRanges, f, Severity(coin, sev), jit[f])]
                /\ pdLast' = [op |-> "fillVaried", draws |-> <<coin, sev, jit>>]
    /\ UNCHANGED <<models, pdMetrics, features, selectedModelId, loading,
                   featureRanges, pdDatasetInfo, evalTable, pdLoad, calls, fetched>>
    /\ UNCHANGED <<authVars, overviewVars, metricsPageVars, pageVars>>

\* the least and the greatest draw: one fill of either archetype
EndDraws == {0, DrawUnit - 1}

\* a signed-in scientist has opened /predict
AtPredict ==
    /\ storage = loginStorage("jwt1", "scientist", "a@lab.com")
    /\ auth = loginAuth("jwt1", "scientist", "a@lab.com")
    /\ loc = Location("/predict", Null)
    /\ page = "/predict"
    /\ inflight = {}
    /\ form = NoForm
    /\ last = Event("loginOk", Null)
    /\ sinceLogout = FALSE
    /\ remembered = Null

PredictInit == AtPredict /\ PagesUnmounted

PredictNext ==
    \/ PredictLoadOk
    \/ PredictLoadFail
    \/ PredictRemount
    \/ SelectPredictModel
    \/ handleFeatureChange
    \/ handlePredict
    \/ PredictOk
    \/ PredictFail
    \/ autoFillRealisticVaried(EndDraws)

PredictSpec == PredictInit /\ [][PredictNext]_vars

-----------------------------------------------------------------------------
(* Initial load: claims C13 and C14 *)

\* what a feed holds when its fetch alone decides it: the fallback when the
\* fetch was rejected or answered nothing, the body otherwise
FeedOf(outcome, empty) ==
    IF outcome = Rejected THEN empty ELSE OrElse(outcome[1], empty)

\* C13: once the initial load has settled, a fetch that failed left only its
\* own feed at the empty value; every feed whose fetch succeeded is
\* committed and the load as a whole did not abort.
C13_FeedsDegradeIndependently ==
    fetched # None =>
        LET o == fetched[1] IN
        /\ models = filterToDeployed(FeedOf(o.m, <<>>))
        /\ features = FeedOf(o.feat, <<>>)
        /\ pdMetrics = filterToDeployed(FeedOf(o.met, <<>>))
        /\ featureRanges = FeedOf(o.ranges, <<>>)
        /\ pdDatasetInfo = FeedOf(o.ds, "{}")
        /\ evalTable = FeedOf(o.ev, "[]")
        /\ pdLast.op = "init" => pdErrorMsg = ""

\* the feeds of the store hold their useState values
FeedsInitial ==
    /\ models = <<>>
    /\ pdMetrics = <<>>
    /\ features = <<>>
    /\ featureRanges = <<>>
    /\ selectedModelId = Null
    /\ patientData = <<>>

\* the feeds of the store are what the settled fetches of o commit; the
\* selected model and the patient record are the load's own until the user
\* changes them, and stay within the loaded models and features afterwards
FeedsFromLoad(o) ==
    LET ids == ObjectKeys(filterToDeployed(OrElse(o.m[1], <<>>)))
        feat == OrElse(o.feat[1], <<>>)
    IN /\ models = filterToDeployed(OrElse(o.m[1], <<>>))
       /\ pdMetrics = filterToDeployed(OrElse(o.met[1], <<>>))
       /\ features = feat
       /\ featureRanges = OrElse(o.ranges[1], <<>>)
       /\ IF ids = <<>> THEN selectedModelId = Null
          ELSE selectedModelId \in {ids[i] : i \in DOMAIN ids}
       /\ DOMAIN patientData = {feat[i] : i \in DOMAIN feat}
       /\ pdLast.op = "init" =>
             /\ ids # <<>> => selectedModelId = ids[1]
             /\ patientData = Defaults(feat)

\* C14: the initial load commits only after every fetch has settled, and all
\* at once: the feeds (models, metrics, features, feature ranges, selected
\* model, default patient record) are either all at their initial values or
\* all taken from the same completed load, also when the load ended in an
\* error.
C14_CommitAllOrNothing ==
    IF fetched = None THEN FeedsInitial
    ELSE IF Aborts(fetched[1]) THEN FeedsInitial
    ELSE FeedsFromLoad(fetched[1])

\* a load committed while the dataset fetch was rejected: the first listed
\* model is selected and the patient record holds the defaults
C14_Witness ==
    /\ pdLoad = "done"
    /\ fetched # None
    /\ fetched[1].ds = Rejected
    /\ ~Aborts(fetched[1])
    /\ pdLast.op = "init"
    /\ Len(models) = 2
    /\ selectedModelId = "random_forest"
    /\ patientData = ("smoothness_se" :> 0)
    /\ featureRanges = FullRanges

-----------------------------------------------------------------------------
(* Predict call: claim C20 *)

\* C20: when a predict call fails, a user-visible error is set, the
\* prediction is cleared, loading is reset to false, the patient record and
\* the selected model are left as they were, and no predict request is
\* issued except by the user's next run of handlePredict.
C20_PredictFailure ==
    [][/\ pdLast'.op = "predictFail" =>
            /\ pdErrorMsg' = "Error calling prediction API."
            /\ prediction' = None
            /\ loading' = FALSE
            /\ patientData' = patientData
            /\ selectedModelId' = selectedModelId
            /\ calls' = {}
       /\ ~(calls' \subseteq calls) => pdLast'.op = "predict"]_vars

\* a call failed after an earlier one had produced a prediction and the
\* user had typed a value and picked the second model while it was awaited
C20_Witness ==
    /\ pdLast.op = "predictFail"
    /\ pdErrorMsg = "Error calling prediction API."
    /\ prediction = None
    /\ ~loading
    /\ calls = {}
    /\ patientData = ("smoothness_se" :> 1250000)
    /\ selectedModelId = "k-nn_(optimized)"

-----------------------------------------------------------------------------
(* Severity-biased fill: claim C19 *)

\* a fill leaves the selected model, the feature statistics, the model and
\* metrics maps and the feature list as they were
FillFrame ==
    /\ selectedModelId' = selectedModelId
    /\ featureRanges' = featureRanges
    /\ models' = models
    /\ pdMetrics' = pdMetrics
    /\ features' = features
    /\ UNCHANGED <<loading, pdDatasetInfo, evalTable, calls>>

\* C19: every invocation of the severity-biased fill leaves the prediction
\* cleared and leaves the selected model, the feature statistics, the model
\* and metrics maps and the feature list unchanged; only the patient record,
\* the prediction and the error message may change.
C19_FillClearsPrediction ==
    [][pdLast'.op = "fillVaried" => (prediction' = None /\ FillFrame)]_vars

\* C19 as amended: an invocation that regenerates the patient record (a
\* feature list and feature statistics are loaded) leaves the prediction
\* cleared and the error message empty; an invocation that returns early
\* leaves the patient record and the prediction as they were; in both cases
\* nothing but the patient record, the prediction and the error message
\* changes.
C19_FillClearsPredictionOnRegeneration ==
    [][pdLast'.op = "fillVaried" =>
          /\ FillFrame
          /\ IF features # <<>> /\ DOMAIN featureRanges # {}
               THEN /\ prediction' = None
                    /\ pdErrorMsg' = ""
                    /\ DOMAIN patientData' = FeatureSet
               ELSE /\ prediction' = prediction
                    /\ patientData' = patientData]_vars

\* a malignant-leaning fill has replaced the record and no prediction is shown
C19_Witness ==
    /\ pdLast.op = "fillVaried"
    /\ pdLast.draws # <<>>
    /\ pdLast.draws[1] = DrawUnit - 1
    /\ prediction = None
    /\ patientData["smoothness_se"] > SmoothnessStats.mean[1]
    /\ selectedModelId = "random_forest"

-----------------------------------------------------------------------------
(* Distribution-based fill (autoFillFromDistribution of the earlier App,   *)
(* which keeps the same store): a function of the store and of two draws   *)
(* per feature, applied to the stores a load and the user's handlers leave. *)

\* the values of a JavaScript number that are no count of units
NaN == -2147483647

NegInfinity == -2147483646

Infinity == 2147483647

Finite(x) == x \notin {NaN, NegInfinity, Infinity}

\* the draws u1 at which Math.sqrt(-2.0 * Math.log(u1)) is a whole number,
\* and u1 = 0, where Math.log gives -Infinity
U1Draws == {"0", "exp(-2)", "exp(-1/2)"}

\* the draws u2 at which Math.cos(2.0 * Math.PI * u2) is 1 or -1
U2Draws == {"0", "1/2"}

\* z0 = Math.sqrt(-2.0 * Math.log(u1)) * Math.cos(2.0 * Math.PI * u2)
BoxMuller(u1, u2) ==
    LET radius == IF u1 = "0" THEN Infinity ELSE IF u1 = "exp(-2)" THEN 2 ELSE 1
        cosine == IF u2 = "0" THEN 1 ELSE -1
    IN IF radius = Infinity
         THEN (IF cosine > 0 THEN Infinity ELSE NegInfinity)
         ELSE radius * cosine

\* stats.mean + z0 * stats.std
Sampled(mean, std, z0) ==
    IF Finite(z0) THEN mean + z0 * std
    ELSE IF std = 0 THEN NaN
    ELSE IF (z0 = Infinity) = (std > 0) THEN Infinity
    ELSE NegInfinity

\* Math.max(a, b) and Math.min(a, b) of a bound a and a value b
MathMax(a, b) ==
    IF b = NaN THEN NaN ELSE IF b = Infinity THEN Infinity
    ELSE IF b = NegInfinity THEN a ELSE Max(a, b)

MathMin(a, b) ==
    IF b = NaN THEN NaN ELSE IF b = NegInfinity THEN NegInfinity
    ELSE IF b = Infinity THEN a ELSE Min(a, b)

\* if (stats.min != null) value = Math.max(stats.min, value);
\* if (stats.max != null) value = Math.min(stats.max, value);
Clamped(stats, value) ==
    LET low == IF stats.min # None THEN MathMax(stats.min[1], value) ELSE value
    IN IF stats.max # None THEN MathMin(stats.max[1], low) ELSE low

\* the rounding of a value that may be NaN or infinite: toFixed leaves those
RoundedValue(value) == IF Finite(value) THEN Rounded(value, 1) ELSE value

\* newData[feat] of autoFillFromDistribution
DistributionValue(ranges, feat, u1, u2) ==
    LET stats == Lookup(ranges, feat) IN
    IF stats = None \/ stats[1].mean = None \/ stats[1].std = None THEN 0
    ELSE RoundedValue(Clamped(stats[1],
                              Sampled(stats[1].mean[1], stats[1].std[1],
                                      BoxMuller(u1, u2))))

\* autoFillFromDistribution
autoFillFromDistribution ==
    /\ IF features = <<>>
         THEN /\ pdLast' = [op |-> "fillDistribution", draws |-> <<>>]
              /\ UNCHANGED <<patientData, prediction, pdErrorMsg>>
         ELSE IF DOMAIN featureRanges = {}
         THEN /\ pdErrorMsg' = "Feature ranges not loaded. Check /feature-ranges in FastAPI."
              /\ pdLast' = [op |-> "fillDistribution", draws |-> <<>>]
              /\ UNCHANGED <<patientData, prediction>>
         ELSE \E u1 \in [FeatureSet -> U1Draws], u2 \in [FeatureSet -> U2Draws] :
                /\ patientData' =
                      [f \in FeatureSet |->
                         DistributionValue(featureRanges, f, u1[f], u2[f])]
                /\ prediction' = None
                /\ pdErrorMsg' = ""
                /\ pdLast' = [op |-> "fillDistribution", draws |-> <<u1, u2>>]
    /\ UNCHANGED <<models, pdMetrics, features, selectedModelId, loading,
                   featureRanges, pdDatasetInfo, evalTable, pdLoad, calls, fetched>>
    /\ UNCHANGED <<authVars, overviewVars, metricsPageVars, pageVars>>

\* a feature whose observed values are all equal: std 0
ConstantStats == Stats(Some(704), Some(0), Some(704), Some(704))

\* the stores the fill is applied to: a load has committed two models, the
\* features and the statistics, and the user may have typed values and run
\* a prediction
SamplerInit ==
    /\ AtPredict
    /\ OverviewUnmounted
    /\ MetricsUnmounted
    /\ ViewsUnmounted
    /\ ExplainUnmounted
    /\ models = <<RegistryEntry("random_forest"), RegistryEntry("k-nn_(optimized)")>>
    /\ pdMetrics = <<Entry("random_forest", "metrics of random_forest")>>
    /\ features \in {<<>>, <<"smoothness_se">>, <<"smoothness_se", "radius_mean">>}
    /\ featureRanges \in
          {<<>>, FullRanges, PartialRanges,
           ("smoothness_se" :> ConstantStats) @@ ("radius_mean" :> RadiusStats),
           ("smoothness_se" :> SmoothnessStats)
              @@ ("radius_mean" :> Stats(None, None, Some(698100), Some(2811000)))}
    /\ selectedModelId = "random_forest"
    /\ patientData \in {Defaults(features),
                        [f \in {features[i] : i \in DOMAIN features} |-> 1250000]}
    /\ prediction \in {None, Some([prediction |-> 1])}
    /\ pdErrorMsg \in {"", "Error calling prediction API."}
    /\ loading = FALSE
    /\ pdDatasetInfo = "wdbc"
    /\ evalTable = "table"
    /\ pdLoad = "done"
    /\ calls = {}
    /\ fetched = None
    /\ pdLast = [op |-> "init", draws |-> <<>>]

SamplerSpec == SamplerInit /\ [][autoFillFromDistribution]_vars

-----------------------------------------------------------------------------
(* Distribution-based fill: claims C16 and C17 *)

AllKnown(stats) ==
    stats.mean # None /\ stats.std # None /\ stats.min # None /\ stats.max # None

-----------------------------------------------------------------------------
(* Severity-biased fill: claim C18 *)

\* C18: one invocation draws a single severity in [0, 0.4) or [0.6, 1.0);
\* every feature with known min and max gets min + s * (max - min) with
\* s = severity + jitter, jitter within [-0.05, 0.05], clamped to [0, 1], so
\* all s lie in [0, 0.45] or all in [0.55, 1], and every value lies in
\* [min, max] when min <= max.
C18_SeverityBiasedValues ==
    (pdLast.op = "fillVaried" /\ pdLast.draws # <<>>) =>
        LET severity == Severity(pdLast.draws[1], pdLast.draws[2])
            jit == pdLast.draws[3]
            bounded == {f \in FeatureSet : ~NoBounds(Lookup(featureRanges, f))}
            s(f) == Scale(severity, Jitter(jit[f]))
        IN /\ \/ 0 <= severity /\ 10 * severity < 4 * SUnit
              \/ 6 * SUnit <= 10 * severity /\ severity < SUnit
           /\ \A f \in bounded : 20 * Abs(Jitter(jit[f])) <= SUnit
           /\ \/ \A f \in bounded : 0 <= s(f) /\ 100 * s(f) <= 45 * SUnit
              \/ \A f \in bounded : 55 * SUnit <= 100 * s(f) /\ s(f) <= SUnit
           /\ \A f \in bounded :
                 LET stats == featureRanges[f] IN
                 stats.min[1] <= stats.max[1] =>
                    /\ stats.min[1] <= patientData[f]
                    /\ patientData[f] <= stats.max[1]

-----------------------------------------------------------------------------
(* Predict call, answered: claim C21 *)

\* the "Prediction Result" card: nothing while prediction is null, else
\* prediction.prediction === 1 ? "Malignant (1)" : "Benign (0)"
PredictionResult ==
    IF prediction = None THEN None
    ELSE IF "prediction" \in DOMAIN prediction[1] /\ prediction[1].prediction = 1
      THEN Some(1)
      ELSE Some(0)

\* the body carries a prediction field with one of the two classes
WellFormed(res) == "prediction" \in DOMAIN res /\ res.prediction \in {0, 1}

\* C21: a predict call whose response body is malformed (no prediction
\* field, or a prediction outside {0,1}) is treated as a failure, so every
\* prediction held in state has its class in {0,1} and the class displayed
\* is the class the backend returned.
C21_MalformedIsFailure ==
    prediction # None =>
        /\ WellFormed(prediction[1])
        /\ PredictionResult = Some(prediction[1].prediction)

-----------------------------------------------------------------------------
(* Page components and what they await: each page starts its loads in a     *)
(* mount effect, the Overview page also polls the live feed, and leaving a  *)
(* page runs the cleanups of its effects.  A load or poll in flight names   *)
(* the component instance whose closure awaits it.                          *)

\* how many page components are mounted in a run
MaxMounts == 2

\* how many polls the interval issues in a run
MaxTicks == 3

\* the endpoints the fetches of a load or poll ask
Urls(load) ==
    IF load = "load" THEN {"/dataset-info", "/metrics", "/monitoring/summary"}
    ELSE IF load = "poll" THEN {"/monitoring/live"}
    ELSE IF load = "report" THEN {"/evaluation-report"}
    ELSE IF load = "init"
      THEN {"/models", "/features", "/metrics", "/feature-ranges", "/dataset-info",
            "/evaluation-table"}
    ELSE IF load = "loadModels" THEN {"/models"}
    ELSE {"/shap-summary", "/feature-importance", "/lime-explanation"}

\* the Authorization header of a request to url: the interceptor of the
\* axios instance sets it when localStorage holds a token; the monitoring
\* endpoints are asked with fetch(), which sets none
Authorization(url, st) ==
    IF url \notin {"/monitoring/summary", "/monitoring/live"} /\ Truthy(st["token"])
      THEN Some(<<"Bearer", st["token"]>>)
      ELSE None

Load(view, i, load, n) ==
    [view |-> view, inst |-> i, load |-> load, n |-> n, aborted |-> FALSE,
     sent |-> {[url |-> u, authorization |-> Authorization(u, storage)] :
                  u \in Urls(load)}]

\* the requests the mount effects of a page start; n numbers the first poll
StartedOnMount(view, i, n) ==
    IF view = "/overview" THEN {Load(view, i, "load", 0), Load(view, i, "poll", n)}
    ELSE IF view = "/metrics" THEN {Load(view, i, "report", 0)}
    ELSE IF view = "/predict" THEN {Load(view, i, "init", 0)}
    ELSE {Load(view, i, "loadModels", 0)}

\* the cleanups of the effects: Metrics aborts its request; the Overview
\* poll effect clears `alive` and its interval; the other effects return none
Cleanup(l) == IF l.load = "report" THEN [l EXCEPT !.aborted = TRUE] ELSE l

\* the component that awaits l has been torn down
Torn(l) == ~(page = l.view /\ inst = l.inst)

\* the setters the continuation of a load calls, by how its request settled
Setters(l, outcome) ==
    IF l.load = "load"
      THEN (IF outcome = "fulfilled"
              THEN {"setDatasetInfo", "setMetrics", "setMonitoring", "setErrorMsg"}
              ELSE {"setErrorMsg"})
    ELSE IF l.load = "poll"
      THEN (IF outcome = "fulfilled" /\ l.inst \in alive THEN {"setLiveFeed"} ELSE {})
    ELSE IF l.load = "report"
      THEN (IF outcome = "fulfilled" THEN {"setReport", "setSelectedId", "setLoading"}
            ELSE IF outcome = "canceled" THEN {"setLoading"}
            ELSE {"setErr", "setLoading"})
    ELSE IF l.load = "init"
      THEN (IF outcome = "fulfilled"
              THEN {"setModels", "setFeatures", "setMetrics", "setFeatureRanges",
                    "setDatasetInfo", "setEvalTable", "setSelectedModelId",
                    "setPatientData"}
              ELSE {"setErrorMsg"})
    ELSE IF l.load = "loadModels"
      THEN (IF outcome = "fulfilled" THEN {"setModels", "setSelectedModelId", "setLoading"}
            ELSE {"setError", "setLoading"})
    ELSE (IF outcome = "fulfilled"
            THEN {"setShapSummary", "setFeatureImportance", "setLimeExplanation",
                  "setLoading"}
            ELSE {"setError", "setLoading"})

\* history: the setters a continuation calls on a component torn down before
Late(l, outcome) ==
    IF Torn(l) THEN {<<l.view, l.load, s>> : s \in Setters(l, outcome)} ELSE {}

\* A NavLink leads to another page: the cleanups of the page that is left
\* run, and the new page's component mounts and starts its effects (the
\* poll effect calls tick() at once and arms the interval).
OpenPage(p) ==
    /\ p # page
    /\ inst < MaxMounts
    /\ NavLinkClick(p)
    /\ inst' = inst + 1
    /\ running' = {Cleanup(l) : l \in running}
                     \cup StartedOnMount(p, inst + 1, issued + 1)
    /\ alive' = IF p = "/overview" THEN {inst + 1} ELSE {}
    /\ interval' = IF p = "/overview" THEN {inst + 1} ELSE {}
    /\ liveFeed' = IF p = "/overview" THEN <<>> ELSE liveFeed
    /\ issued' = IF p = "/overview" THEN issued + 1 ELSE issued
    /\ appliedPoll' = IF p = "/overview" THEN 0 ELSE appliedPoll
    /\ lvLast' = [op |-> "open", n |-> 0]
    /\ UNCHANGED late
    /\ UNCHANGED <<overviewVars, metricsPageVars, predictVars, explainVars>>

\* setInterval(tick, 3000) fires: tick up to its await
Tick ==
    /\ \E i \in interval :
          running' = running \cup {Load("/overview", i, "poll", issued + 1)}
    /\ issued < MaxTicks
    /\ issued' = issued + 1
    /\ lvLast' = [op |-> "tick", n |-> issued + 1]
    /\ UNCHANGED <<inst, alive, interval, liveFeed, appliedPoll, late>>
    /\ UNCHANGED <<authVars, overviewVars, metricsPageVars, predictVars, explainVars>>

\* the bodies GET /monitoring/live answers with: a list, or no list
LiveBody(array, items) == [array |-> array, items |-> items]

LiveAnswers ==
    {LiveBody(TRUE, <<"prediction a">>), LiveBody(TRUE, <<"prediction b">>),
     LiveBody(FALSE, <<>>)}

\* tick after its await, request fulfilled:
\* if (alive) setLiveFeed(Array.isArray(data) ? data : [])
PollOk ==
    /\ \E l \in running, data \in LiveAnswers :
          /\ l.load = "poll"
          /\ running' = running \ {l}
          /\ IF l.inst \in alive
               THEN /\ liveFeed' = IF data.array THEN data.items ELSE <<>>
                    /\ appliedPoll' = l.n
               ELSE UNCHANGED <<liveFeed, appliedPoll>>
          /\ late' = late \cup Late(l, "fulfilled")
          /\ lvLast' = [op |-> "pollOk", n |-> l.n]
    /\ UNCHANGED <<inst, alive, interval, issued>>
    /\ UNCHANGED <<authVars, overviewVars, metricsPageVars, predictVars, explainVars>>

\* mutant: a failed poll empties the feed
PollFail_ClearsFeed ==
    /\ \E l \in running :
          /\ l.load = "poll"
          /\ running' = running \ {l}
          /\ late' = late \cup Late(l, "rejected")
          /\ lvLast' = [op |-> "pollFail", n |-> l.n]
    /\ liveFeed' = <<>>
    /\ UNCHANGED <<inst, alive, interval, issued, appliedPoll>>
    /\ UNCHANGED <<authVars, overviewVars, metricsPageVars, predictVars, explainVars>>

\* tick after its await, request rejected (no answer, a status outside 2xx,
\* a body that is no JSON): the empty catch block
PollFail ==
    /\ \E l \in running :
          /\ l.load = "poll"
          /\ running' = running \ {l}
          /\ late' = late \cup Late(l, "rejected")
          /\ lvLast' = [op |-> "pollFail", n |-> l.n]
    /\ UNCHANGED <<inst, alive, interval, liveFeed, issued, appliedPoll>>
    /\ UNCHANGED <<authVars, overviewVars, metricsPageVars, predictVars, explainVars>>

\* A load's request settles and its continuation runs to the end; an aborted
\* request settles as canceled only.  The Explainability page starts
\* loadExplainability once loadModels has selected a model.
LoadSettles ==
    /\ \E l \in running, outcome \in {"fulfilled", "rejected", "canceled"} :
          /\ l.load # "poll"
          /\ l.aborted <=> outcome = "canceled"
          /\ running' =
                (running \ {l}) \cup
                   (IF l.load = "loadModels" /\ outcome = "fulfilled" /\ ~Torn(l)
                      THEN {Load(l.view, l.inst, "loadExplainability", 0)}
                      ELSE {})
          /\ late' = late \cup Late(l, outcome)
          /\ lvLast' = [op |-> outcome, n |-> 0]
    /\ UNCHANGED <<inst, alive, interval, liveFeed, issued, appliedPoll>>
    /\ UNCHANGED <<authVars, overviewVars, metricsPageVars, predictVars, explainVars>>

\* a signed-in data scientist has opened /overview: its mount effects have
\* started the load and the first poll
ViewsInit ==
    /\ storage = loginStorage("jwt1", "data_scientist", "a@lab.com")
    /\ auth = loginAuth("jwt1", "data_scientist", "a@lab.com")
    /\ loc = Location("/overview", Null)
    /\ page = "/overview"
    /\ inflight = {}
    /\ form = NoForm
    /\ last = Event("loginOk", Null)
    /\ sinceLogout = FALSE
    /\ remembered = Null
    /\ OverviewUnmounted
    /\ MetricsUnmounted
    /\ PredictUnmounted
    /\ ExplainUnmounted
    /\ inst = 1
    /\ running = StartedOnMount("/overview", 1, 1)
    /\ alive = {1}
    /\ interval = {1}
    /\ liveFeed = <<>>
    /\ issued = 1
    /\ appliedPoll = 0
    /\ late = {}
    /\ lvLast = [op |-> "open", n |-> 0]

ViewsNext ==
    \/ \E p \in ProtectedPaths : OpenPage(p)
    \/ Tick
    \/ PollOk
    \/ PollFail
    \/ LoadSettles

ViewsSpec == ViewsInit /\ [][ViewsNext]_vars

-----------------------------------------------------------------------------
(* Live feed poll: claims C22 and C28 *)

\* C22: the poll is issued by the interval alone, whatever else happens on
\* the page; a failed poll sets no error, changes neither the feed shown nor
\* any other state, and leaves the interval armed, which stays armed for as
\* long as the page is open.
C22_PollFailureAbsorbed ==
    /\ [](interval = IF page = "/overview" THEN {inst} ELSE {})
    /\ [][lvLast'.op = "pollFail" =>
             /\ liveFeed' = liveFeed
             /\ errorMsg' = errorMsg
             /\ interval' = interval
             /\ alive' = alive
             /\ late' = late
             /\ UNCHANGED <<authVars, overviewVars, metricsPageVars, predictVars, explainVars>>]_vars

\* the second poll failed while the feed showed the answer of the first;
\* the interval is armed and its third poll is awaited
C22_Witness ==
    /\ lvLast = [op |-> "pollFail", n |-> 2]
    /\ liveFeed = <<"prediction a">>
    /\ appliedPoll = 1
    /\ errorMsg = ""
    /\ interval = {inst}
    /\ \E l \in running : l.load = "poll" /\ l.n = 3
    /\ page = "/overview"

\* C28: the feed is updated in poll-issue order: an answer that is applied
\* belongs to a poll issued no earlier than the poll whose answer is shown.
C28_FeedInIssueOrder ==
    [][lvLast'.op = "pollOk" => appliedPoll' >= appliedPoll]_vars

-----------------------------------------------------------------------------
(* Teardown: claim C23 *)

\* C23: once a view is torn down, no response, error or completion handler
\* of a load or poll it owns calls a state setter of that view.
C23_NoSetterAfterTeardown == late = {}

-----------------------------------------------------------------------------
(* Authorization header: claim C24 *)

\* C24: once a token is present in storage, every request the client sends
\* to the backend carries Authorization: Bearer <token> with the current
\* token, and without a token in storage no request carries one.
C24_EveryRequestAuthorized ==
    \A l \in running : \A r \in l.sent :
        r.authorization =
            IF storage["token"] # Null THEN Some(<<"Bearer", storage["token"]>>)
            ELSE None

-----------------------------------------------------------------------------
(* Patient record: claim C25 *)

\* the number an entry typed into a feature's input stands for: 0 for an
\* entry that is no number
Entered(text) == IF text = "12.5" THEN 1250000 ELSE 0

\* C25: after a successful load the patient record holds exactly one numeric
\* entry for each known feature, 0 by default; an edit stores the number
\* entered, or 0 for a non-numeric entry, and changes no other feature's
\* entry; a fill leaves a numeric entry for every known feature.
C25_PatientRecord ==
    /\ []((pdLoad = "done" /\ fetched # None /\ ~Aborts(fetched[1])) =>
             /\ DOMAIN patientData = FeatureSet
             /\ \A f \in FeatureSet :
                   /\ patientData[f] \in Int
                   /\ pdLast.op = "init" => patientData[f] = 0)
    /\ [][/\ pdLast'.op = "change" =>
                /\ DOMAIN patientData' = DOMAIN patientData
                /\ patientData'[pdLast'.draws[1]] = Entered(pdLast'.draws[2])
                /\ \A g \in DOMAIN patientData \ {pdLast'.draws[1]} :
                      patientData'[g] = patientData[g]
          /\ pdLast'.op = "fillVaried" =>
                /\ DOMAIN patientData' = FeatureSet
                /\ \A f \in FeatureSet : patientData'[f] \in Int]_vars

\* two features are loaded; one holds a filled value and the entry of the
\* other has just been emptied
C25_Witness ==
    /\ features = <<"smoothness_se", "radius_mean">>
    /\ pdLast = [op |-> "change", draws |-> <<"radius_mean", "">>]
    /\ patientData["radius_mean"] = 0
    /\ patientData["smoothness_se"] \notin {0, 1250000}

-----------------------------------------------------------------------------
(* Shown prediction: claim C27 *)

\* C27: a prediction that is shown answers a request sent with the model
\* that is selected and the patient record that is displayed: the answer
\* applied belongs to such a request, and while a prediction stays shown
\* neither the selected model nor the patient record changes.
C27_PredictionIsCurrent ==
    [][/\ pdLast'.op = "predictOk" =>
             \A c \in calls \ calls' :
                 c = [modelId |-> selectedModelId', data |-> patientData']
       /\ (prediction # None /\ prediction' = prediction) =>
             /\ selectedModelId' = selectedModelId
             /\ patientData' = patientData]_vars

-----------------------------------------------------------------------------
(* Guard redirects: claim C26 *)

\* C26: for every session that holds a token, whatever its role, a request
\* for any protected route ends in a rendered page after at most one
\* redirect: the guard admits /overview, the target of its redirect.
C26_GuardSettles ==
    IsAuthed(auth) =>
        /\ page # Blank
        /\ RouteElement(auth, "/overview") = Children("/overview")
        /\ \A p \in ProtectedPaths :
              LET s == Settle(auth, Location(p, Null), 0)
              IN s.page = s.loc.pathname /\ s.hops <= 1

-----------------------------------------------------------------------------
(* Selected row: claim C30 *)

\* C30: after a successful load of a report with at least one row, the
\* selected model id is the model_id of some row of the report, whatever
\* recommended_model_id the report declares and after every selection, so
\* the selected row is never null.
C30_SelectedRowExists ==
    (report # None /\ rows # <<>>) =>
        /\ \E i \in DOMAIN rows : rows[i].model_id = selectedId
        /\ selectedRow # None

-----------------------------------------------------------------------------
(* Explainability page: loadExplainability runs whenever the selected model *)
(* or the sample index changes; a run awaits up to three requests in turn   *)
(* and sets an artifact after each.  An artifact is the answer to the       *)
(* request that asked for it: it names the model (and sample) asked for.    *)

ALLOWED_MODELS == <<"k-nn_(optimized)", "random_forest">>

modelCapabilities ==
    ("k-nn_(optimized)" :> [shap |-> TRUE, lime |-> TRUE, featureImportance |-> FALSE])
        @@ ("random_forest" :> [shap |-> TRUE, lime |-> TRUE, featureImportance |-> TRUE])

\* how many runs of loadExplainability start
MaxLoads == 3

\* the greatest sample index the user moves to
MaxSample == 1

\* the await a run reaches next after the step `after` ("start" at first),
\* "finally" when no request is left
NextAwait(caps, after) ==
    IF after = "start" /\ caps.shap THEN "shap"
    ELSE IF after \in {"start", "shap"} /\ caps.featureImportance THEN "importance"
    ELSE IF after # "lime" /\ caps.lime THEN "lime"
    ELSE "finally"

\* loadExplainability up to its first await: setLoading(true), setError(null)
\* and the reset of the three artifacts; the closure keeps the model, its
\* capabilities and the sample index of the render that started it
StartRun(modelId, sample) ==
    /\ exStarted < MaxLoads
    /\ exStarted' = exStarted + 1
    /\ exRuns' = exRuns \cup
          {[k |-> exStarted + 1, modelId |-> modelId, sample |-> sample,
            at |-> NextAwait(modelCapabilities[modelId], "start")]}
    /\ exLoading' = TRUE
    /\ exError' = Null
    /\ shapSummary' = None
    /\ featureImportance' = None
    /\ limeExplanation' = None

\* the selector's onChange with another model: setSelectedModelId, and the
\* effect runs loadExplainability
SelectExplainModel ==
    /\ \E i \in DOMAIN ALLOWED_MODELS :
          /\ ALLOWED_MODELS[i] # exSelectedModelId
          /\ exSelectedModelId' = ALLOWED_MODELS[i]
          /\ StartRun(ALLOWED_MODELS[i], sampleIndex)
    /\ UNCHANGED sampleIndex
    /\ UNCHANGED <<authVars, overviewVars, metricsPageVars, predictVars, viewsVars>>

\* Prev, Next or the number input with another index: setSampleIndex, and
\* the effect runs loadExplainability
SetSampleIndex ==
    /\ \E s \in 0 .. MaxSample :
          /\ s # sampleIndex
          /\ sampleIndex' = s
          /\ StartRun(exSelectedModelId, s)
    /\ UNCHANGED exSelectedModelId
    /\ UNCHANGED <<authVars, overviewVars, metricsPageVars, predictVars, viewsVars>>

\* A run's request is fulfilled: the setter after the await, then the next
\* request, or setLoading(false) of the finally block.
RunStepOk ==
    /\ \E r \in exRuns :
          LET next == NextAwait(modelCapabilities[r.modelId], r.at) IN
          /\ shapSummary' =
                IF r.at = "shap" THEN Some([modelId |-> r.modelId]) ELSE shapSummary
          /\ featureImportance' =
                IF r.at = "importance" THEN Some([modelId |-> r.modelId])
                ELSE featureImportance
          /\ limeExplanation' =
                IF r.at = "lime"
                  THEN Some([modelId |-> r.modelId, sample_index |-> r.sample])
                  ELSE limeExplanation
          /\ exRuns' = (exRuns \ {r}) \cup
                          (IF next = "finally" THEN {} ELSE {[r EXCEPT !.at = next]})
          /\ exLoading' = IF next = "finally" THEN FALSE ELSE exLoading
    /\ UNCHANGED <<exSelectedModelId, sampleIndex, exError, exStarted>>
    /\ UNCHANGED <<authVars, overviewVars, metricsPageVars, predictVars, viewsVars>>

\* A run's request is rejected: setError of the catch block and
\* setLoading(false) of the finally block.
RunStepFail ==
    /\ \E r \in exRuns : exRuns' = exRuns \ {r}
    /\ exError' = "Request failed"
    /\ exLoading' = FALSE
    /\ UNCHANGED <<exSelectedModelId, sampleIndex, shapSummary, featureImportance,
                   limeExplanation, exStarted>>
    /\ UNCHANGED <<authVars, overviewVars, metricsPageVars, predictVars, viewsVars>>

\* a signed-in scientist has opened /explainability; loadModels has set the
\* registry and selected its first model, and the effect has started the
\* first run
ExplainInit ==
    /\ storage = loginStorage("jwt1", "scientist", "a@lab.com")
    /\ auth = loginAuth("jwt1", "scientist", "a@lab.com")
    /\ loc = Location("/explainability", Null)
    /\ page = "/explainability"
    /\ inflight = {}
    /\ form = NoForm
    /\ last = Event("loginOk", Null)
    /\ sinceLogout = FALSE
    /\ remembered = Null
    /\ OverviewUnmounted
    /\ MetricsUnmounted
    /\ PredictUnmounted
    /\ ViewsUnmounted
    /\ \E i \in DOMAIN ALLOWED_MODELS :
          /\ exSelectedModelId = ALLOWED_MODELS[i]
          /\ exRuns = {[k |-> 1, modelId |-> ALLOWED_MODELS[i], sample |-> 0,
                        at |-> NextAwait(modelCapabilities[ALLOWED_MODELS[i]], "start")]}
    /\ sampleIndex = 0
    /\ shapSummary = None
    /\ featureImportance = None
    /\ limeExplanation = None
    /\ exLoading = TRUE
    /\ exError = Null
    /\ exStarted = 1

ExplainNext ==
    \/ SelectExplainModel
    \/ SetSampleIndex
    \/ RunStepOk
    \/ RunStepFail

ExplainSpec == ExplainInit /\ [][ExplainNext]_vars

-----------------------------------------------------------------------------
(* Explainability loads: claim C29 *)

\* C29: the answer of an earlier load never stands in for the current
\* selection: the loading flag is true whenever a load is in flight, and once
\* none is, every artifact held belongs to the selected model (the LIME
\* artifact also to the sample index shown).
C29_ArtifactsOfSelection ==
    /\ exRuns # {} => exLoading
    /\ exRuns = {} =>
          /\ shapSummary \in {None, Some([modelId |-> exSelectedModelId])}
          /\ featureImportance \in {None, Some([modelId |-> exSelectedModelId])}
          /\ limeExplanation \in
                {None, Some([modelId |-> exSelectedModelId,
                             sample_index |-> sampleIndex])}

=============================================================================
